---------------------------- MODULE Spec2Model ----------------------------
(***************************************************************************)
(* A model of the D100 ASCII dungeon crawler: the dungeon generator        *)
(* (dungeon.py), the rule engine (systems.py, spell_system.py) and the     *)
(* screens that drive them (gameplay_states.py, combat_states.py).         *)
(*                                                                         *)
(* Encoding conventions                                                    *)
(*   - Python None is the string "None"; where an entity id is expected    *)
(*     (an empty equipment slot) it is NoId.                               *)
(*   - Coordinates are 0-based as in the source; a row r of a template map *)
(*     is read as map[y + 1][x + 1].                                       *)
(*   - The entries of an area layout (0, 1 or 'D' in tables.py) are the    *)
(*     strings "0", "1" and "D".                                           *)
(***************************************************************************)
EXTENDS Integers, Sequences, FiniteSets, TLC

VARIABLES
    \* ---- dungeon.py: DungeonMap ----
    areas,          \* DungeonMap.areas: (x, y) -> Area
    world_tiles,    \* DungeonMap.world_tiles: (wx, wy) -> tile_data
    draws,          \* number of values taken from the random stream so far
    dcall,          \* the last generate_area call: arguments and outcome
    \* ---- ecs.py: the World as a store of entities and components ----
    entities,       \* World.entities: entity id -> (component name -> value)
    components,     \* World.components: component name -> set of entity ids
    \* ---- ecs.py: World, seen through the component tables the game uses ----
    entity_id_counter,  \* World.entity_id_counter
    stats,          \* entity id -> Stats component
    skills,         \* the player's Skills.skills
    equipment,      \* the player's Equipment.slots
    inventory,      \* the player's Inventory.items
    items,          \* entity id -> Item component
    info,           \* entity id -> Info component
    spell_book,     \* the player's SpellBook
    resources,      \* the player's Resources
    \* ---- main.py and the screens ----
    states,             \* Game.states: the stack of screens, by class name
    inventory_screen,   \* the fields of the InventoryScreen
    combat_screen,      \* the fields of the CombatScreen
    combats,        \* number of combats started so far
    rounds,         \* number of rounds resolved in the combat
    ops,            \* number of equip, unequip, item and spell operations
    \* ---- gameplay_states.py: exploration ----
    position,       \* the player's Position component
    ticks,          \* TimeManager.ticks
    door_screen,    \* the fields of the DoorScreen
    rcall           \* the last rule-engine call: arguments and outcome

dungeonVars == <<areas, world_tiles, draws, dcall>>

ecsVars == <<entities, components>>

exploreVars == <<position, ticks, door_screen>>

worldVars == <<entity_id_counter, stats, skills, equipment, inventory, items,
               info, spell_book, resources>>

screenVars == <<states, inventory_screen, combat_screen, combats, rounds,
                ops>>

vars == <<areas, world_tiles, draws, dcall, entities, components,
          entity_id_counter, stats, skills,
          equipment, inventory, items, info, spell_book, resources, states,
          inventory_screen, combat_screen, combats, rounds, ops, position,
          ticks, door_screen, rcall>>

None == "None"

\* None where an entity id is expected (an empty equipment slot).
NoId == -1

Rep(c, n) == [i \in 1..n |-> c]

Min2(a, b) == IF a <= b THEN a ELSE b
Max2(a, b) == IF a >= b THEN a ELSE b
Abs(n) == IF n < 0 THEN -n ELSE n

(***************************************************************************)
(* room_templates.py                                                       *)
(***************************************************************************)
StartRoomMap ==
    <<Rep("#", 9) \o <<"D">> \o Rep("#", 10)>>
    \o [r \in 1..7 |-> <<"#">> \o Rep(".", 18) \o <<"#">>]
    \o <<Rep("#", 20)>>

CorridorNsMap ==
    <<Rep("#", 7) \o <<"D">> \o Rep("#", 11)>>
    \o [r \in 1..6 |-> Rep("#", 7) \o <<".">> \o Rep("#", 11)]
    \o <<Rep("#", 7) \o <<"D">> \o Rep("#", 11)>>

FourWayRoomMap ==
    <<Rep("#", 9) \o <<"D">> \o Rep("#", 9)>>
    \o [r \in 1..3 |-> <<"#">> \o Rep(".", 17) \o <<"#">>]
    \o <<(<<"D">> \o Rep(".", 17) \o <<"D">>)>>
    \o [r \in 1..3 |-> <<"#">> \o Rep(".", 17) \o <<"#">>]
    \o <<Rep("#", 9) \o <<"D">> \o Rep("#", 9)>>

\* 'exits' maps a direction to the (x, y) of the exit tile; a direction the
\* template does not declare is absent from the function's domain.
TEMPLATES ==
    [start_room |->
        [map |-> StartRoomMap,
         exits |-> [d \in {"north"} |-> <<9, 0>>],
         start_pos |-> <<9, 4>>],
     corridor_ns |->
        [map |-> CorridorNsMap,
         exits |-> [d \in {"north", "south"} |->
                      IF d = "north" THEN <<7, 0>> ELSE <<7, 7>>]],
     four_way_room |->
        [map |-> FourWayRoomMap,
         exits |-> [d \in {"north", "south", "east", "west"} |->
                      CASE d = "north" -> <<9, 0>>
                        [] d = "south" -> <<9, 8>>
                        [] d = "east"  -> <<18, 4>>
                        [] d = "west"  -> <<0, 4>>]]]

TemplateKeys == {"start_room", "corridor_ns", "four_way_room"}

\* A tile set without the door tile.
FloorTilesOnly == {"."}

WALKABLE_TILES == {"D", "."}

(***************************************************************************)
(* tables.py                                                               *)
(***************************************************************************)
\* The integer keys of MAPPING_TABLE in declaration order (the order
\* MAPPING_TABLE.keys() iterates in).
MappingKeys == <<1, 2, 3, 4, 5, 6, 7, 8, 9, 10>>

MAPPING_TABLE(k) ==
    CASE k = 1  -> [type |-> "Yellow", layout |-> <<"1", "0", "1", "0">>]
      [] k = 2  -> [type |-> "Red",    layout |-> <<"1", "1", "1", "1">>]
      [] k = 3  -> [type |-> "Yellow", layout |-> <<"0", "1", "0", "1">>]
      [] k = 4  -> [type |-> "Red",    layout |-> <<"1", "D", "1", "0">>]
      [] k = 5  -> [type |-> "Yellow", layout |-> <<"1", "1", "0", "1">>]
      [] k = 6  -> [type |-> "Green",  layout |-> <<"0", "1", "1", "1">>]
      [] k = 7  -> [type |-> "Red",    layout |-> <<"1", "D", "1", "D">>]
      [] k = 8  -> [type |-> "Yellow", layout |-> <<"1", "0", "1", "0">>]
      [] k = 9  -> [type |-> "Green",  layout |-> <<"1", "D", "1", "1">>]
      [] k = 10 -> [type |-> "Red",    layout |-> <<"1", "0", "1", "0">>]

\* An entrance entry taken from the rolled part of the table.
MappingEntranceRolled == MAPPING_TABLE(4)

MappingEntrance == [type |-> "Yellow", layout |-> <<"1", "0", "0", "0">>]

DoorKeys == <<1, 32, 34, 72, 96>>

DOOR_TABLE(k) ==
    CASE k = 1  -> [code |-> "L1",  type |-> "Locked",      test |-> "Dex",
                    mod |-> 0,   skills |-> <<"Locks">>]
      [] k = 32 -> [code |-> "TL1", type |-> "Trap Locked", test |-> "Dex",
                    mod |-> 0,   skills |-> <<"Locks", "Traps">>]
      [] k = 34 -> [code |-> "J1",  type |-> "Jammed",      test |-> "Str",
                    mod |-> 0,   skills |-> <<"Strong">>]
      [] k = 72 -> [code |-> "L4",  type |-> "Locked",      test |-> "Dex",
                    mod |-> -15, skills |-> <<"Locks">>]
      [] k = 96 -> [code |-> "M",   type |-> "Magic",       test |-> "Int",
                    mod |-> 0,   skills |-> <<"Magic">>]

(***************************************************************************)
(* dungeon.py                                                              *)
(***************************************************************************)
\* A lookup that keeps the last of the keys at minimal distance.
ClosestKeyLast(keys, roll) ==
    LET best == CHOOSE i \in 1..Len(keys) :
                   /\ \A j \in 1..Len(keys) :
                         Abs(keys[i] - roll) <= Abs(keys[j] - roll)
                   /\ \A j \in (i + 1)..Len(keys) :
                         Abs(keys[j] - roll) > Abs(keys[i] - roll)
    IN keys[best]

\* min(keys, key=lambda k: abs(k - roll)): the first key, in iteration
\* order, whose distance to the roll is minimal.
ClosestKey(keys, roll) ==
    LET best == CHOOSE i \in 1..Len(keys) :
                   /\ \A j \in 1..Len(keys) :
                         Abs(keys[i] - roll) <= Abs(keys[j] - roll)
                   /\ \A j \in 1..(i - 1) :
                         Abs(keys[j] - roll) > Abs(keys[i] - roll)
    IN keys[best]

\* Door.__init__
Door(door_data) ==
    [type |-> door_data.type, code |-> door_data.code,
     test |-> door_data.test, mod |-> door_data.mod,
     skills |-> door_data.skills, is_open |-> FALSE]

AreaColor(type) ==
    CASE type = "Yellow" -> "YELLOW"
      [] type = "Red"    -> "RED"
      [] type = "Green"  -> "GREEN"
      [] type = "Blue"   -> "BLUE"
      [] OTHER           -> "GREY"

\* Area.__init__ (room_data and world_tiles are functions of x, y and the
\* template, see RoomData and AreaWorldTiles)
Area(x, y, area_data, template_key) ==
    [x |-> x, y |-> y,
     type |-> area_data.type,
     layout |-> area_data.layout,
     color |-> AreaColor(area_data.type),
     has_been_searched |-> FALSE,
     feature |-> None,
     doors |-> <<>>,
     template |-> template_key]

RoomData(area) == TEMPLATES[area.template].map
RoomWidth(area) == Len(RoomData(area)[1])
RoomHeight(area) == Len(RoomData(area))

\* Area._calculate_world_positions
AreaWorldTiles(area) ==
    LET ox == area.x * (RoomWidth(area) - 1)
        oy == area.y * (RoomHeight(area) - 1)
        pos == {<<ox + lx, oy + ly>> :
                   lx \in 0..(RoomWidth(area) - 1),
                   ly \in 0..(RoomHeight(area) - 1)}
    IN [p \in pos |->
           [char |-> RoomData(area)[p[2] - oy + 1][p[1] - ox + 1],
            local_pos |-> <<p[1] - ox, p[2] - oy>>,
            room_coords |-> <<area.x, area.y>>]]

\* A merge in which the incoming tile always wins.
AddAreaToWorldMapOverwrite(tiles, area) ==
    LET new == AreaWorldTiles(area)
    IN [p \in (DOMAIN tiles) \cup (DOMAIN new) |->
           IF p \in DOMAIN new THEN new[p] ELSE tiles[p]]

\* DungeonMap._add_area_to_world_map
AddAreaToWorldMap(tiles, area) ==
    LET new == AreaWorldTiles(area)
    IN [p \in (DOMAIN tiles) \cup (DOMAIN new) |->
           IF p \in DOMAIN new /\ (p \notin DOMAIN tiles \/ new[p].char = "D")
           THEN new[p]
           ELSE tiles[p]]

\* DungeonMap.get_area
GetArea(x, y) == IF <<x, y>> \in DOMAIN areas THEN areas[<<x, y>>] ELSE None

\* DungeonMap.local_to_world_coords
LocalToWorldCoords(room_x, room_y, local_x, local_y) ==
    IF <<room_x, room_y>> \notin DOMAIN areas
    THEN <<None, None>>
    ELSE LET area == areas[<<room_x, room_y>>]
         IN <<room_x * (RoomWidth(area) - 1) + local_x,
              room_y * (RoomHeight(area) - 1) + local_y>>

ExitMap == <<(<<0, -1>>), (<<1, 0>>), (<<0, 1>>), (<<-1, 0>>)>>

\* The sides of a layout that hold a door, i.e. the indices i (1-based) with
\* layout[i] = 'D'.
DoorSides(layout) == {i \in 1..4 : layout[i] = "D"}

\* A generator that ignores the required exit when it picks a template.
PossibleTemplatesAnyExit(required_exit) == TemplateKeys \ {"start_room"}

\* A generator whose fallback may pick the start room again.
PossibleTemplatesWithStart(required_exit) ==
    LET matching == IF required_exit # None
                    THEN {k \in TemplateKeys :
                             /\ k # "start_room"
                             /\ required_exit \in DOMAIN TEMPLATES[k].exits}
                    ELSE {}
    IN IF matching = {} THEN TemplateKeys ELSE matching

\* The templates generate_area may choose from (lines 87-97).
PossibleTemplates(required_exit) ==
    LET matching == IF required_exit # None
                    THEN {k \in TemplateKeys :
                             /\ k # "start_room"
                             /\ required_exit \in DOMAIN TEMPLATES[k].exits}
                    ELSE {}
    IN IF matching = {} THEN TemplateKeys \ {"start_room"} ELSE matching

\* The doors generate_area creates for a layout, one d100 roll per 'D' side.
GeneratedDoors(layout, door_rolls) ==
    [d \in {ExitMap[i] : i \in DoorSides(layout)} |->
        LET i == CHOOSE j \in DoorSides(layout) : ExitMap[j] = d
        IN Door(DOOR_TABLE(ClosestKey(DoorKeys, door_rolls[i])))]

\* The inputs the model draws for the random stream.
AreaRollSet == {4, 7, 100}
DoorRollSet == {33, 96}

\* The coordinates generate_area is called with, and the number of areas
\* the model lets the map grow to.
Coords == {<<0, 0>>, <<0, -1>>, <<1, -1>>, <<0, -2>>}
MaxAreas == 2

\* The required_exit arguments: none, the four directions, and a name no
\* template declares.
RequiredExits == {None, "north", "south", "east", "west", "up"}

\* Area plus the doors generate_area adds to it (lines 102, 109-117).
NewArea(x, y, area_data, template_key, door_rolls) ==
    [Area(x, y, area_data, template_key) EXCEPT
        !.doors = GeneratedDoors(area_data.layout, door_rolls)]

\* A generator without the cache lookup.
IsGeneratedNever(x, y) == FALSE

\* generate_area line 75: the cache lookup.
IsGenerated(x, y) == <<x, y>> \in DOMAIN areas

\* generate_area lines 102-119: store the area, merge its tiles, return it.
\* n_draws is the number of random values the call has consumed.
StoreArea(x, y, is_entrance, required_exit, a, n_draws) ==
    /\ areas' = [c \in DOMAIN areas \cup {<<x, y>>} |->
                    IF c = <<x, y>> THEN a ELSE areas[c]]
    /\ world_tiles' = AddAreaToWorldMap(world_tiles, a)
    /\ draws' = draws + n_draws
    /\ dcall' = [x |-> x, y |-> y, required_exit |-> required_exit,
                 is_entrance |-> is_entrance, cached |-> FALSE, ret |-> a]

\* DungeonMap.generate_area, the d100 rolls being drawn from area_rolls
\* (line 82) and door_rolls (line 112)
GenerateAreaFrom(x, y, is_entrance, required_exit, area_rolls, door_rolls) ==
    IF IsGenerated(x, y)
    THEN /\ dcall' = [x |-> x, y |-> y, required_exit |-> required_exit,
                      is_entrance |-> is_entrance, cached |-> TRUE,
                      ret |-> areas[<<x, y>>]]
         /\ UNCHANGED <<areas, world_tiles, draws>>
    ELSE IF is_entrance
    THEN StoreArea(x, y, is_entrance, required_exit,
                   Area(x, y, MappingEntrance, "start_room"), 0)
    ELSE \E roll \in area_rolls :
         \E template_key \in PossibleTemplates(required_exit) :
            LET area_data == MAPPING_TABLE(ClosestKey(MappingKeys, roll))
            IN \E rolls \in [DoorSides(area_data.layout) -> door_rolls] :
                  StoreArea(x, y, is_entrance, required_exit,
                            NewArea(x, y, area_data, template_key, rolls),
                            2 + Cardinality(DoorSides(area_data.layout)))

\* DungeonMap.generate_area
GenerateArea(x, y, is_entrance, required_exit) ==
    GenerateAreaFrom(x, y, is_entrance, required_exit, AreaRollSet,
                     DoorRollSet)

(***************************************************************************)
(* components.py                                                           *)
(***************************************************************************)
ZeroTrack == [i \in 1..10 |-> 0]

StatNames == {"str", "dex", "int"}

\* Stats.__init__
Stats(strength, dexterity, intelligence, hp, av, defense, damage_mod) ==
    [primary_str |-> strength, primary_dex |-> dexterity,
     primary_int |-> intelligence, primary_hp |-> hp,
     adj_str |-> strength, adj_dex |-> dexterity, adj_int |-> intelligence,
     max_hp |-> hp, current_hp |-> hp,
     av |-> av, defense |-> defense, damage_mod |-> damage_mod,
     xp_pips |-> [n \in StatNames |-> ZeroTrack],
     attuned_stats |-> {}]

SkillNames == {"Agility", "Aware", "Bravery", "Dodge", "Escape", "Locks",
               "Lucky", "Magic", "Strong", "Traps"}

\* Skills.__init__
Skills == [n \in SkillNames |->
              [bonus |-> 0, xp_pips |-> ZeroTrack, attuned |-> FALSE]]

SlotNames == {"head", "torso", "main_hand", "off_hand", "back", "arms",
              "hands", "waist", "legs", "feet", "neck", "ring1", "ring2"}

\* Equipment.__init__
Equipment == [n \in SlotNames |-> NoId]

\* Item.__init__: the four constructor arguments are all an Item holds; it
\* has no 'effect' attribute.
Item(name, value, slot, bonuses) ==
    [name |-> name, value |-> value, slot |-> slot, bonuses |-> bonuses]

\* hasattr(item, 'effect')
HasEffect(item) == "effect" \in DOMAIN item

\* Info.__init__
Info(name, race, hero_path, life_points) ==
    [name |-> name, race |-> race, hero_path |-> hero_path,
     life_points |-> life_points, rep |-> 1, fate |-> 3]

\* SpellBook.__init__
SpellBook == [spells |-> <<>>, is_unlocked |-> FALSE]

\* Resources.__init__
Resources(oil, food, picks) ==
    [oil |-> oil, food |-> food, picks |-> picks,
     key_pips |-> 0, lever_pips |-> 0]

\* Position.__init__
Position(world_x, world_y, local_x, local_y) ==
    [world_x |-> world_x, world_y |-> world_y,
     local_x |-> local_x, local_y |-> local_y]

\* TimeManager.__init__: the time track, a tick without a marker being
\* absent from the domain.
TimeManager ==
    [ticks |-> 0,
     time_track_markers |->
        (3 :> "oil" @@ 6 :> "food" @@ 9 :> "monster" @@ 12 :> "oil"
         @@ 15 :> "food" @@ 18 :> "monster" @@ 21 :> "oil" @@ 24 :> "food"
         @@ 27 :> "monster" @@ 30 :> "oil" @@ 33 :> "food" @@ 36 :> "end")]

(***************************************************************************)
(* systems.py                                                              *)
(***************************************************************************)
\* dict.get(key, 0)
Get(d, key) == IF key \in DOMAIN d THEN d[key] ELSE 0

\* world.get_component(item_id, "Item") followed by the guards of lines
\* 46-48: the bonus an equipped slot contributes for one stat key.  A slot
\* value that is falsy (None, or entity id 0) contributes nothing.
SlotBonus(item_id, it, key) ==
    IF item_id = NoId \/ item_id = 0 THEN 0
    ELSE IF item_id \notin DOMAIN it THEN 0
    ELSE IF DOMAIN it[item_id].bonuses = {} THEN 0
    ELSE Get(it[item_id].bonuses, key)

RECURSIVE BonusSum(_, _, _, _)
\* The loop of lines 45-54 for one stat key, over the slots in 'slots'.
BonusSum(eq, it, slots, key) ==
    IF slots = {} THEN 0
    ELSE LET sl == CHOOSE x \in slots : TRUE
         IN SlotBonus(eq[sl], it, key) + BonusSum(eq, it, slots \ {sl}, key)

\* A recomputation that forgets to clamp current_hp.
ClampHpNoClamp(current_hp, max_hp) == current_hp

\* update_player_stats line 57
ClampHp(current_hp, max_hp) == Min2(current_hp, max_hp)

\* A recomputation that patches the adjusted value instead of resetting it.
AdjustedValuePatched(adjusted, primary, bonus) == adjusted + bonus

\* update_player_stats lines 37-42 and 49-54 for one value: reset to the
\* primary value, then add the summed bonuses.
AdjustedValue(adjusted, primary, bonus) == primary + bonus

\* update_player_stats, on the player's Stats s, Equipment.slots eq and the
\* Item table it.
UpdatePlayerStats(s, eq, it) ==
    LET B(key) == BonusSum(eq, it, DOMAIN eq, key)
        max_hp == AdjustedValue(s.max_hp, s.primary_hp, B("hp"))
    IN [s EXCEPT
           !.adj_str = AdjustedValue(s.adj_str, s.primary_str, B("str")),
           !.adj_dex = AdjustedValue(s.adj_dex, s.primary_dex, B("dex")),
           !.adj_int = AdjustedValue(s.adj_int, s.primary_int, B("int")),
           !.max_hp = max_hp,
           !.defense = AdjustedValue(s.defense, 0, B("def")),
           !.damage_mod = AdjustedValue(s.damage_mod, 0, B("dmg")),
           !.current_hp = ClampHp(s.current_hp, max_hp)]

\* str.lower() on the names the callers pass.
Lower(name) ==
    CASE name = "Str" -> "str"
      [] name = "Dex" -> "dex"
      [] name = "Int" -> "int"
      [] name \in SkillNames ->
           (CASE name = "Agility" -> "agility" [] name = "Aware" -> "aware"
              [] name = "Bravery" -> "bravery" [] name = "Dodge" -> "dodge"
              [] name = "Escape" -> "escape" [] name = "Locks" -> "locks"
              [] name = "Lucky" -> "lucky" [] name = "Magic" -> "magic"
              [] name = "Strong" -> "strong" [] name = "Traps" -> "traps")
      [] name = "Stealth" -> "stealth"
      [] OTHER -> name

PrimaryField(n) ==
    CASE n = "str" -> "primary_str"
      [] n = "dex" -> "primary_dex"
      [] n = "int" -> "primary_int"

AdjField(n) ==
    CASE n = "str" -> "adj_str"
      [] n = "dex" -> "adj_dex"
      [] n = "int" -> "adj_int"

TrackFull(track) == \A i \in 1..Len(track) : track[i] # 0

\* The last empty slot instead of the first.
LastZero(track) == CHOOSE i \in 1..Len(track) :
                      /\ track[i] = 0
                      /\ \A j \in (i + 1)..Len(track) : track[j] # 0

\* track.index(0)
FirstZero(track) == CHOOSE i \in 1..Len(track) :
                       /\ track[i] = 0
                       /\ \A j \in 1..(i - 1) : track[j] # 0

RECURSIVE FillPips(_, _)
\* for _ in range(n): if 0 in track: track[track.index(0)] = 1
FillPips(track, n) ==
    IF n <= 0 \/ TrackFull(track) THEN track
    ELSE FillPips([track EXCEPT ![FirstZero(track)] = 1], n - 1)

\* A level-up threshold that is off by one (a track with one empty slot
\* already levels up).
LevelUpDueEarly(track) ==
    Cardinality({i \in 1..Len(track) : track[i] = 0}) <= 1

\* A track that never levels up.
LevelUpDueNever(track) == FALSE

\* award_experience lines 72 and 86: 0 not in track
LevelUpDue(track) == TrackFull(track)

\* A skill award without the doubling of line 83.
SkillPipsSingle(pips_to_add) == pips_to_add

\* award_experience line 83: range(pips_to_add * 2)
SkillPips(pips_to_add) == pips_to_add * 2

\* award_experience, on Stats s and Skills.skills sk; the result is the pair
\* of both after the call.
AwardExperience(s, sk, eq, it, name, pips_to_add) ==
    LET name_lower == Lower(name)
    IN IF name_lower \in DOMAIN s.xp_pips
       THEN LET n == IF name_lower \in s.attuned_stats
                     THEN pips_to_add * 2 ELSE pips_to_add
                track == FillPips(s.xp_pips[name_lower], n)
            IN IF LevelUpDue(track)
               THEN [s |-> UpdatePlayerStats(
                              [s EXCEPT
                                 ![PrimaryField(name_lower)] = @ + 5,
                                 !.xp_pips[name_lower] = ZeroTrack],
                              eq, it),
                     sk |-> sk]
               ELSE [s |-> [s EXCEPT !.xp_pips[name_lower] = track],
                     sk |-> sk]
       ELSE IF name \in DOMAIN sk
       THEN LET n == IF sk[name].attuned
                     THEN pips_to_add * 2 ELSE pips_to_add
                track == FillPips(sk[name].xp_pips, SkillPips(n))
            IN IF LevelUpDue(track)
               THEN [s |-> s,
                     sk |-> [sk EXCEPT ![name].bonus = @ + 5,
                                       ![name].xp_pips = ZeroTrack]]
               ELSE [s |-> s,
                     sk |-> [sk EXCEPT ![name].xp_pips = track]]
       ELSE [s |-> s, sk |-> sk]

RECURSIVE AwardEach(_, _, _, _, _)
\* perform_test lines 106-107: one award per assisting skill, in order.
AwardEach(s, sk, eq, it, names) ==
    IF names = <<>> THEN [s |-> s, sk |-> sk]
    ELSE LET r == AwardExperience(s, sk, eq, it, Head(names), 1)
         IN AwardEach(r.s, r.sk, eq, it, Tail(names))

RECURSIVE SkillBonusSum(_, _)
\* perform_test lines 98-100
SkillBonusSum(sk, names) ==
    IF names = <<>> THEN 0
    ELSE (IF Head(names) \in DOMAIN sk THEN sk[Head(names)].bonus ELSE 0)
         + SkillBonusSum(sk, Tail(names))

\* A test without the automatic outcomes of rolls 1 and 100.
TestOutcomePlain(roll, target_value) == roll <= target_value

\* perform_test lines 109-112
TestOutcome(roll, target_value) ==
    IF roll = 1 THEN TRUE
    ELSE IF roll = 100 THEN FALSE
    ELSE roll <= target_value

\* perform_test line 104
GrantsXp(roll) == roll <= 10

\* perform_test with the d100 result given; the result holds the Stats and
\* Skills after the call, the local target_value and the returned success.
PerformTest(s, sk, eq, it, characteristic, modifier, assisting_skills, roll) ==
    LET char_lower == Lower(characteristic)
        target_value == s[AdjField(char_lower)] + modifier
                        + SkillBonusSum(sk, assisting_skills)
        r1 == AwardExperience(s, sk, eq, it, char_lower, 1)
        r2 == AwardEach(r1.s, r1.sk, eq, it, assisting_skills)
    IN [s |-> IF GrantsXp(roll) THEN r2.s ELSE s,
        sk |-> IF GrantsXp(roll) THEN r2.sk ELSE sk,
        target_value |-> target_value,
        success |-> TestOutcome(roll, target_value)]

(***************************************************************************)
(* Game data.  main.py loads items.json and monsters.json, and             *)
(* spell_system.load_spell_table reads game.spells_data; none of the three *)
(* files is part of the sources, so small catalogs of the documented shape *)
(* stand for them.                                                         *)
(***************************************************************************)
EmptyDict == <<>>

\* game.items_data: category -> key -> item data
ItemsData ==
    [weapons |-> [sword |-> [name |-> "Sword", value |-> 50,
                             slot |-> "main_hand",
                             bonuses |-> [dmg |-> 1]]],
     armor |-> [circlet |-> [name |-> "Circlet", value |-> 90,
                             slot |-> "head",
                             bonuses |-> [int |-> 5]],
                jerkin |-> [name |-> "Leather Jerkin", value |-> 40,
                            slot |-> "torso",
                            bonuses |-> [def |-> 1, hp |-> 5]]],
     items |-> [gem |-> [name |-> "Gem", value |-> 100, slot |-> "junk"]]]

\* game.monsters_data: key -> monster data.  A loot_table string is the
\* sequence of its characters: "W/I" is <<"W", "/", "I">>, "" is <<>>.
\* The rat carries an empty loot table, the bat none at all, the imp a code
\* of no category, the troll a code with a repeat count.
MonstersData ==
    [ogre |-> [name |-> "Ogre", hp |-> 3, av |-> 50, def |-> 0, dmg |-> 7,
               loot_table |-> <<"W", "/", "I">>],
     goblin |-> [name |-> "Goblin", hp |-> 8, av |-> 40, def |-> 2,
                 dmg |-> 2, loot_table |-> <<"A">>],
     rat |-> [name |-> "Rat", hp |-> 1, av |-> 30, def |-> 0, dmg |-> 0,
              loot_table |-> <<>>],
     bat |-> [name |-> "Bat", hp |-> 1, av |-> 30, def |-> 0, dmg |-> 0],
     imp |-> [name |-> "Imp", hp |-> 1, av |-> 30, def |-> 0, dmg |-> 0,
              loot_table |-> <<"X", "2">>],
     troll |-> [name |-> "Troll", hp |-> 1, av |-> 30, def |-> 0, dmg |-> 0,
                loot_table |-> <<"W", "2">>],
     wisp |-> [name |-> "Wisp", hp |-> 1, av |-> 0, def |-> 0, dmg |-> 0,
               loot_table |-> <<"X">>]]

\* monster_data.get("loot_table", "")
LootTableOf(monster_data) ==
    IF "loot_table" \in DOMAIN monster_data THEN monster_data.loot_table
    ELSE <<>>

\* str.split('/'): the pieces between the slashes, the empty ones included;
\* the empty string gives one empty piece.
RECURSIVE Split(_)
Split(str) ==
    IF \E i \in 1..Len(str) : str[i] = "/"
    THEN LET i == CHOOSE j \in 1..Len(str) :
                     str[j] = "/" /\ \A k \in 1..(j - 1) : str[k] # "/"
         IN <<SubSeq(str, 1, i - 1)>> \o Split(SubSeq(str, i + 1, Len(str)))
    ELSE <<str>>

\* loot_table_str.split('/')
LootCodes(loot_table) == Split(loot_table)

\* str.isdigit() and int(str) on decimal digits
DigitValue(c) ==
    CASE c = "0" -> 0 [] c = "1" -> 1 [] c = "2" -> 2 [] c = "3" -> 3
      [] c = "4" -> 4 [] c = "5" -> 5 [] c = "6" -> 6 [] c = "7" -> 7
      [] c = "8" -> 8 [] c = "9" -> 9 [] OTHER -> -1

IsDigit(str) ==
    str # <<>> /\ \A i \in 1..Len(str) : DigitValue(str[i]) >= 0

RECURSIVE IntOf(_)
IntOf(str) ==
    IF str = <<>> THEN 0
    ELSE 10 * IntOf(SubSeq(str, 1, Len(str) - 1)) + DigitValue(str[Len(str)])

\* generate_loot lines 305-306: num_rolls of a code
NumRolls(chosen_code) ==
    IF Len(chosen_code) > 1 /\ IsDigit(Tail(chosen_code))
    THEN IntOf(Tail(chosen_code)) ELSE 1

\* game.spells_data['spells'], keyed by threshold, as an embedding provides
\* it (load_spell_table yields the empty table when the game object carries
\* no spells_data).
SpellTables ==
    { (13 :> [name |-> "Heal", cost |-> 2, cost_type |-> "hp",
              effect |-> "heal_10", int_requirement |-> 50]
       @@ 17 :> [name |-> "Fire Blast", cost |-> 3, cost_type |-> "hp",
                 effect |-> "damage_4", int_requirement |-> 50]),
      (13 :> [name |-> "Drain Life", cost |-> 4, cost_type |-> "hp",
              effect |-> "drain_life", int_requirement |-> 50]
       @@ 17 :> [name |-> "Stone Skin", cost |-> 10, cost_type |-> "str",
                 effect |-> "armor_1", int_requirement |-> 60]) }

\* A third table: a spell paid in a currency can_afford_spell does not
\* know, and one whose HP cost a wounded caster exactly has.
RareTable ==
    13 :> [name |-> "Invisibility", cost |-> 1, cost_type |-> "fate",
           effect |-> "invisibility", int_requirement |-> 50]
    @@ 17 :> [name |-> "Clumsy", cost |-> 8, cost_type |-> "hp",
              effect |-> "clumsy", int_requirement |-> 50]

(***************************************************************************)
(* menu_states.py: CharCreationScreen                                      *)
(***************************************************************************)
Races == {"Human", "Elf", "Dwarf"}
Paths == {"Warrior", "Rogue", "Sorcerer"}

\* get_pre_bonus_skills
PreBonusSkills(race, path) ==
    (CASE path = "Warrior" -> {"Bravery", "Escape"}
       [] path = "Rogue" -> {"Locks", "Traps"}
       [] path = "Sorcerer" -> {"Magic", "Lucky"})
    \cup
    (CASE race = "Dwarf" -> {"Strong"}
       [] race = "Elf" -> {"Dodge"}
       [] race = "Human" -> {"Aware"})

\* The consumables of generate_starting_equipment lines 161-179: one entry
\* per unit.
Consumable(name, value, effect) ==
    [type |-> "consumable",
     data |-> [name |-> name, slot |-> "consumable", value |-> value,
               effect |-> effect]]

StartingConsumables ==
    Rep(Consumable("Lantern Oil (Flask)", 30, "add_oil"), 20)
    \o Rep(Consumable("Food (Leather Bag)", 20, "add_food"), 10)
    \o Rep(Consumable("Lock Picks (Pouch)", 40, "add_picks"), 15)
    \o Rep(Consumable("Potion of Lesser Healing", 80, "heal"), 3)

\* generate_starting_equipment, with the keys its random choices picked:
\* one weapon, then the armor pieces (distinct slots), then the consumables.
GenerateStartingEquipment(weapon_key, armor_keys) ==
    <<[type |-> "weapon", data |-> ItemsData.weapons[weapon_key]]>>
    \o [i \in 1..Len(armor_keys) |->
           [type |-> "armor", data |-> ItemsData.armor[armor_keys[i]]]]
    \o StartingConsumables

\* finish_creation: assigned holds the values 50/40/30 given to Str, Dex
\* and Int in make_selection.
FinishCreation(assigned, race, path, chosen_skills, starting_equipment) ==
    LET p_str == assigned.Str
                 + (CASE path = "Warrior" -> 10 [] OTHER -> -5)
                 + (CASE race = "Dwarf" -> 5 [] race = "Elf" -> -5
                      [] OTHER -> 0)
        p_dex == assigned.Dex
                 + (CASE path = "Rogue" -> 10 [] OTHER -> -5)
                 + (CASE race = "Elf" -> 5 [] race = "Human" -> -5
                      [] OTHER -> 0)
        p_int == assigned.Int
                 + (CASE path = "Sorcerer" -> 10 [] OTHER -> -5)
                 + (CASE race = "Dwarf" -> -5 [] race = "Human" -> 5
                      [] OTHER -> 0)
    IN [name |-> "Adventurer", race |-> race, hero_path |-> path,
        stats |-> [str |-> p_str, dex |-> p_dex, int |-> p_int, hp |-> 20],
        info |-> [life |-> 3, rep |-> 1, fate |-> 3],
        skills_choice |-> chosen_skills,
        starting_equipment |-> starting_equipment]

(***************************************************************************)
(* spell_system.py: the spell book                                         *)
(***************************************************************************)
\* SpellBook.add_spell
AddSpell(book, spell_data) ==
    IF \E i \in 1..Len(book.spells) : book.spells[i] = spell_data
    THEN book
    ELSE [book EXCEPT !.spells = Append(@, spell_data)]

\* sorted(spell_table.keys(), key=int, reverse=True): the thresholds from
\* the highest to the lowest (the keys of the table are the decimal strings
\* of the thresholds; the model keeps the integers int() gives).
RECURSIVE SortedDescending(_)
SortedDescending(keys) ==
    IF keys = {} THEN <<>>
    ELSE LET top == CHOOSE k \in keys : \A j \in keys : j <= k
         IN <<top>> \o SortedDescending(keys \ {top})

\* A scan that starts at the lowest threshold.
SpellKeyByRollAscending(roll, keys) ==
    LET order == SortedDescending(keys)
        scan == [i \in 1..Len(order) |-> order[Len(order) + 1 - i]]
        hits == {i \in 1..Len(scan) : roll >= scan[i]}
    IN IF hits # {}
       THEN scan[CHOOSE i \in hits : \A j \in hits : i <= j]
       ELSE CHOOSE k \in keys : \A j \in keys : k <= j

\* get_spell_by_roll lines 15-21: the first threshold of the descending
\* scan the roll reaches, or min(keys) when the scan ends without one.
SpellKeyByRoll(roll, keys) ==
    LET order == SortedDescending(keys)
        hits == {i \in 1..Len(order) : roll >= order[i]}
    IN IF hits # {}
       THEN order[CHOOSE i \in hits : \A j \in hits : i <= j]
       ELSE CHOOSE k \in keys : \A j \in keys : k <= j

\* get_spell_by_roll, as the value of the dict it returns
GetSpellByRoll(roll, spell_table) ==
    spell_table[SpellKeyByRoll(roll, DOMAIN spell_table)]

\* dict.copy() (lines 18, 22) on a heap of dicts, a reference being an
\* index of the heap: a new dict with the items of the old one.
DictCopy(heap, ref) ==
    [heap |-> Append(heap, heap[ref]), ref |-> Len(heap) + 1]

\* give_sorcerer_starting_spells: rolls 17 and 13, in this order.
GiveSorcererStartingSpells(book, spell_table) ==
    IF DOMAIN spell_table = {} THEN book
    ELSE AddSpell(AddSpell(book, GetSpellByRoll(17, spell_table)),
                  GetSpellByRoll(13, spell_table))

\* create_player lines 114-115: the book is unlocked when Int is at least
\* 50 and is never locked again.
UnlockedAtCreation(is_unlocked, adj_int) ==
    IF adj_int >= 50 THEN TRUE ELSE is_unlocked

\* SpellBook.get_castable_spells
GetCastableSpells(book, current_int) ==
    SelectSeq(book.spells, LAMBDA sp : current_int >= sp.int_requirement)

\* An affordability test that accepts a value equal to the cost.
CanAffordSpellAtCost(s, spell) ==
    CASE spell.cost_type = "hp" -> s.current_hp >= spell.cost
      [] spell.cost_type = "str" -> s.adj_str >= spell.cost
      [] OTHER -> FALSE

\* can_afford_spell
CanAffordSpell(s, spell) ==
    CASE spell.cost_type = "hp" -> s.current_hp > spell.cost
      [] spell.cost_type = "str" -> s.adj_str > spell.cost
      [] OTHER -> FALSE

\* pay_spell_cost
PaySpellCost(s, spell) ==
    CASE spell.cost_type = "hp" ->
           [s EXCEPT !.current_hp = @ - spell.cost]
      [] spell.cost_type = "str" ->
           [s EXCEPT !.adj_str = @ - spell.cost]
      [] OTHER -> s

(***************************************************************************)
(* gameplay_states.py: GameplayScreen.__init__                             *)
(***************************************************************************)
ManagerId == 0
PlayerId == 1

\* 'oil' in name.lower(), 'food' in ..., 'pick' in ...: the resource a
\* consumable's name stands for.
ResourceOfName(name) ==
    CASE name = "Lantern Oil (Flask)" -> "oil"
      [] name = "Food (Leather Bag)" -> "food"
      [] name = "Lock Picks (Pouch)" -> "picks"
      [] OTHER -> None

\* item_data.get('bonuses', {})
BonusesOf(item_data) ==
    IF "bonuses" \in DOMAIN item_data THEN item_data.bonuses ELSE EmptyDict

\* auto_equip_starting_gear on a fresh player, entity ids being handed out
\* from first_id on: item i of the list becomes entity first_id + i - 1; a
\* weapon or armor piece is equipped when it is the first one for its slot
\* (the slot being empty until then) and goes to the inventory otherwise;
\* oil, food and picks are counted into the resources; other consumables go
\* to the inventory.
AutoEquipStartingGear(first_id, starting_items) ==
    LET n == Len(starting_items)
        IdOf(i) == first_id + i - 1
        data(i) == starting_items[i].data
        IsGear(i) == starting_items[i].type \in {"weapon", "armor"}
        Equipped(i) ==
            /\ IsGear(i)
            /\ data(i).slot \in SlotNames
            /\ \A j \in 1..(i - 1) :
                  ~(IsGear(j) /\ data(j).slot = data(i).slot)
        Kept(i) ==
            \/ IsGear(i) /\ ~Equipped(i)
            \/ /\ starting_items[i].type = "consumable"
               /\ ResourceOfName(data(i).name) = None
        Count(res) ==
            Cardinality({i \in 1..n :
                           /\ starting_items[i].type = "consumable"
                           /\ ResourceOfName(data(i).name) = res})
        kept == SelectSeq([i \in 1..n |-> i], Kept)
    IN [entity_id_counter |-> first_id + n,
        items |-> [e \in first_id..(first_id + n - 1) |->
                     LET d == data(e - first_id + 1)
                     IN Item(d.name, d.value, d.slot, BonusesOf(d))],
        equipment |-> [sl \in SlotNames |->
                         IF \E i \in 1..n : Equipped(i) /\ data(i).slot = sl
                         THEN IdOf(CHOOSE i \in 1..n :
                                      Equipped(i) /\ data(i).slot = sl)
                         ELSE NoId],
        inventory |-> [k \in 1..Len(kept) |-> IdOf(kept[k])],
        resources |-> [Resources(0, 0, 0) EXCEPT
                          !.oil = Count("oil"),
                          !.food = Count("food"),
                          !.picks = Count("picks")]]

\* create_player lines 91-98
StartingSkills(p_data) ==
    LET pre == PreBonusSkills(p_data.race, p_data.hero_path)
        chosen == {p_data.skills_choice[i] :
                     i \in 1..Len(p_data.skills_choice)}
    IN [n \in SkillNames |->
          [Skills[n] EXCEPT
             !.bonus = (IF n \in pre THEN 5 ELSE 0)
                       + 5 * Cardinality({i \in 1..Len(p_data.skills_choice) :
                                            p_data.skills_choice[i] = n})]]

\* GameplayScreen.__init__: create_manager, then create_player.  The result
\* is the world after construction.
CreatePlayer(p_data, spell_table) ==
    LET w == AutoEquipStartingGear(PlayerId + 1, p_data.starting_equipment)
        s0 == Stats(p_data.stats.str, p_data.stats.dex, p_data.stats.int,
                    p_data.stats.hp, 0, 0, 0)
        s == UpdatePlayerStats(s0, w.equipment, w.items)
        unlocked == UnlockedAtCreation(SpellBook.is_unlocked, s.adj_int)
        book0 == [SpellBook EXCEPT !.is_unlocked = unlocked]
        book == IF unlocked /\ p_data.hero_path = "Sorcerer"
                THEN GiveSorcererStartingSpells(book0, spell_table)
                ELSE book0
    IN [entity_id_counter |-> w.entity_id_counter,
        stats |-> (PlayerId :> s),
        skills |-> StartingSkills(p_data),
        equipment |-> w.equipment,
        inventory |-> w.inventory,
        items |-> w.items,
        info |-> (PlayerId :> Info(p_data.name, p_data.race,
                                   p_data.hero_path, p_data.info.life)),
        spell_book |-> book,
        resources |-> w.resources]

(***************************************************************************)
(* spell_system.py: spell effects                                          *)
(***************************************************************************)
\* apply_spell_effect on the caster's Stats ps and Info pi and the
\* monster's Stats ms; d10 is the result of random.randint(1, 10), read by
\* ice_storm and lightning only.  Every effect code not listed changes
\* nothing.
ApplySpellEffect(ps, pi, ms, spell, d10) ==
    LET effect == spell.effect
        same == [ps |-> ps, pi |-> pi, ms |-> ms]
    IN CASE effect = "heal_10" ->
              [same EXCEPT !.ps.current_hp =
                  @ + Min2(10, ps.max_hp - ps.current_hp)]
         [] effect = "heal_all" ->
              [same EXCEPT !.ps.current_hp = ps.max_hp]
         [] effect = "damage_2" ->
              [same EXCEPT !.ms.current_hp = @ - 2]
         [] effect = "damage_4" ->
              [same EXCEPT !.ms.current_hp = @ - 4]
         [] effect = "ice_storm" ->
              [same EXCEPT !.ms.current_hp = @ - d10,
                           !.ms.av = IF ms.current_hp - d10 > 0
                                     THEN Max2(0, @ - 5) ELSE @]
         [] effect = "lightning" ->
              [same EXCEPT !.ms.current_hp = @ - d10]
         [] effect = "armor_1" ->
              [same EXCEPT !.ps.defense = @ + 1]
         [] effect \in {"mirror_image", "clumsy"} ->
              [same EXCEPT !.ms.av = Max2(0, @ - 10)]
         [] effect = "drain_life" ->
              [same EXCEPT !.ps.current_hp =
                               Min2(ps.max_hp, ps.current_hp + ms.current_hp),
                           !.ms.current_hp = 0]
         [] effect = "resurrection" ->
              [same EXCEPT !.pi.life_points = @ + 1]
         [] OTHER -> same

(***************************************************************************)
(* main.py: the state stack                                                *)
(***************************************************************************)
\* self.states[-1]
Top == states[Len(states)]

\* Game.push_state
PushState(new_state) == Append(states, new_state)

\* Game.pop_state
PopState == IF Len(states) > 1 THEN SubSeq(states, 1, Len(states) - 1)
            ELSE states

\* Game.change_state
ChangeState(new_state) == <<new_state>>

(***************************************************************************)
(* Keys, dice and bounds of the session                                    *)
(***************************************************************************)
D100Set == {5, 100}
D6Set == {1, 6}
D10Set == {1, 10}
MaxCombats == 1
MaxRounds == 2
MaxOps == 2
MaxBeltEntries == 1

\* list.remove(x) that leaves the list as it is.
RemoveFirstKeep(seq, x) == seq

\* list.remove(x): the first occurrence goes.
RemoveFirst(seq, x) ==
    IF \E i \in 1..Len(seq) : seq[i] = x
    THEN LET i == CHOOSE j \in 1..Len(seq) :
                     seq[j] = x /\ \A k \in 1..(j - 1) : seq[k] # x
         IN SubSeq(seq, 1, i - 1) \o SubSeq(seq, i + 1, Len(seq))
    ELSE seq

\* A removal that leaves the entity in the table.
RemoveEntityKeep(table, entity_id) == table

\* world.remove_entity on a component table
RemoveEntity(table, entity_id) ==
    [e \in DOMAIN table \ {entity_id} |-> table[e]]

\* Equipment.slots in insertion order: the thirteen slots of
\* Equipment.__init__, then a key InventoryScreen.equip_item added.
SlotOrder == <<"head", "torso", "main_hand", "off_hand", "back", "arms",
               "hands", "waist", "legs", "feet", "neck", "ring1", "ring2">>

SlotsInOrder(eq) ==
    SlotOrder \o (IF "consumable" \in DOMAIN eq THEN <<"consumable">>
                  ELSE <<>>)

\* dict.get(slot): None for a key the dict does not hold.
SlotGet(eq, slot) == IF slot \in DOMAIN eq THEN eq[slot] ELSE NoId

\* slots[slot] = item_id, which adds the key when the dict lacks it.
SlotSet(eq, slot, item_id) ==
    [sl \in DOMAIN eq \cup {slot} |-> IF sl = slot THEN item_id ELSE eq[sl]]

(***************************************************************************)
(* gameplay_states.py: GameplayScreen and InventoryScreen                  *)
(***************************************************************************)
NoInventoryScreen == [selected_index |-> 0]

\* The fields of a CombatScreen that decide what a round does; the cursor
\* fields (selected_index, in_submenu, submenu_selected) only select which
\* of the operations below a RETURN key runs.
NoCombatScreen ==
    [monster_id |-> NoId, monster_key |-> None, area |-> <<0, 0>>,
     player_action |-> None, is_combat_over |-> FALSE]

NoCall == [op |-> "none"]

UpdateCall(prev_hp) == [op |-> "update_player_stats", prev_hp |-> prev_hp]

\* move_player line 225: the step to the room an exit leads to
DirectionDelta(exit_direction) ==
    CASE exit_direction = "north" -> <<0, -1>>
      [] exit_direction = "south" -> <<0, 1>>
      [] exit_direction = "east"  -> <<1, 0>>
      [] exit_direction = "west"  -> <<-1, 0>>

\* move_player line 230: the exit of the new room the player comes in by
OppositeDir(exit_direction) ==
    CASE exit_direction = "north" -> "south"
      [] exit_direction = "south" -> "north"
      [] exit_direction = "east"  -> "west"
      [] exit_direction = "west"  -> "east"

\* GameplayScreen.handle_events, key K_i: the inventory opens.
GameplayKeyInventory ==
    /\ states # <<>> /\ Top = "GameplayScreen"
    /\ states' = PushState("InventoryScreen")
    /\ inventory_screen' = [selected_index |-> 0]
    /\ rcall' = NoCall
    /\ UNCHANGED <<dungeonVars, worldVars, combat_screen, combats, rounds, ops>>
    /\ UNCHANGED <<ecsVars, exploreVars>>

\* GameplayScreen.start_combat, which advance_turn calls when the time track
\* reaches a 'monster' marker: a monster entity is created and the combat
\* screen pushed.  monster_keys holds the outcomes of random.choice that
\* are followed.
StartCombatIn(monster_keys, current_area, max_combats) ==
    /\ combats < max_combats
    /\ \E monster_key \in monster_keys :
         LET m_data == MonstersData[monster_key]
             monster_id == entity_id_counter
         IN /\ entity_id_counter' = entity_id_counter + 1
            /\ info' = (monster_id :> Info(m_data.name, None, None, 3)) @@ info
            /\ stats' = (monster_id :> Stats(0, 0, 0, m_data.hp, m_data.av,
                                             m_data.def, m_data.dmg)) @@ stats
            /\ combat_screen' = [NoCombatScreen EXCEPT
                                    !.monster_id = monster_id,
                                    !.monster_key = monster_key,
                                    !.area = current_area]
    /\ states' = PushState("CombatScreen")
    /\ combats' = combats + 1
    /\ rounds' = 0

\* start_combat as a step of its own: the monster appears where the player
\* stands.
StartCombatWith(monster_keys) ==
    /\ states # <<>> /\ Top = "GameplayScreen"
    /\ StartCombatIn(monster_keys, <<position.world_x, position.world_y>>,
                     MaxCombats)
    /\ rcall' = NoCall
    /\ UNCHANGED <<dungeonVars, skills, equipment, inventory, items,
                   spell_book, resources, inventory_screen, ops>>
    /\ UNCHANGED <<ecsVars, exploreVars>>

\* start_combat in a session: the Ogre is met.
StartCombat == StartCombatWith({"ogre"})

\* InventoryScreen.equip_item
EquipItem ==
    LET idx == inventory_screen.selected_index
        item_id == inventory[idx + 1]
        slot_to_equip == items[item_id].slot
        old == SlotGet(equipment, slot_to_equip)
        inv1 == IF old # NoId THEN Append(inventory, old) ELSE inventory
        inv2 == SubSeq(inv1, 1, idx) \o SubSeq(inv1, idx + 2, Len(inv1))
        eq2 == SlotSet(equipment, slot_to_equip, item_id)
    IN IF inventory = <<>> \/ slot_to_equip = "junk"
       THEN UNCHANGED <<equipment, inventory, stats, inventory_screen>>
            /\ rcall' = NoCall
       ELSE /\ equipment' = eq2
            /\ inventory' = inv2
            /\ stats' = [stats EXCEPT ![PlayerId] =
                            UpdatePlayerStats(@, eq2, items)]
            /\ inventory_screen' =
                  IF inv2 # <<>> /\ idx >= Len(inv2)
                  THEN [selected_index |-> Len(inv2) - 1]
                  ELSE inventory_screen
            /\ rcall' = UpdateCall(stats[PlayerId].current_hp)

InventoryKeys == {"K_ESCAPE", "K_UP", "K_DOWN", "K_e"}

\* InventoryScreen.handle_events
InventoryHandleEvents(key) ==
    /\ states # <<>> /\ Top = "InventoryScreen"
    /\ CASE key = "K_ESCAPE" ->
              /\ states' = PopState
              /\ rcall' = NoCall
              /\ UNCHANGED <<equipment, inventory, stats, inventory_screen,
                             ops>>
         [] key = "K_UP" ->
              /\ inventory_screen' =
                    IF inventory # <<>>
                    THEN [selected_index |->
                            (inventory_screen.selected_index - 1)
                               % Len(inventory)]
                    ELSE inventory_screen
              /\ rcall' = NoCall
              /\ UNCHANGED <<states, equipment, inventory, stats, ops>>
         [] key = "K_DOWN" ->
              /\ inventory_screen' =
                    IF inventory # <<>>
                    THEN [selected_index |->
                            (inventory_screen.selected_index + 1)
                               % Len(inventory)]
                    ELSE inventory_screen
              /\ rcall' = NoCall
              /\ UNCHANGED <<states, equipment, inventory, stats, ops>>
         [] key = "K_e" ->
              /\ ops < MaxOps
              /\ EquipItem
              /\ ops' = ops + 1
              /\ UNCHANGED states
    /\ UNCHANGED <<dungeonVars, entity_id_counter, skills, items, info,
                   spell_book, resources, combat_screen, combats, rounds>>
    /\ UNCHANGED <<ecsVars, exploreVars>>

(***************************************************************************)
(* combat_states.py: CombatScreen                                          *)
(***************************************************************************)
NoneItem == [type |-> "none"]

\* open_equipment_submenu: the entries of the submenu
EquipmentSubmenuItems ==
    LET equip_ids == SelectSeq(inventory,
                        LAMBDA item_id : /\ item_id \in DOMAIN items
                                         /\ items[item_id].slot
                                               \in DOMAIN equipment)
        equips == [i \in 1..Len(equip_ids) |->
                     [type |-> "equip", item_id |-> equip_ids[i],
                      slot |-> items[equip_ids[i]].slot]]
        slots == SelectSeq(SlotsInOrder(equipment),
                    LAMBDA slot : /\ equipment[slot] # NoId
                                  /\ equipment[slot] # 0
                                  /\ equipment[slot] \in DOMAIN items)
        unequips == [i \in 1..Len(slots) |->
                       [type |-> "unequip", item_id |-> equipment[slots[i]],
                        slot |-> slots[i]]]
        all == equips \o unequips
    IN IF all = <<>> THEN <<NoneItem>> ELSE all

\* enhanced_open_spell_submenu: the entries of the submenu
SpellSubmenuItems ==
    LET s == stats[PlayerId]
        castable_spells == GetCastableSpells(spell_book, s.adj_int)
    IN IF ~spell_book.is_unlocked THEN <<NoneItem>>
       ELSE IF castable_spells = <<>> THEN <<NoneItem>>
       ELSE [i \in 1..Len(castable_spells) |->
               [type |-> "spell", spell_data |-> castable_spells[i],
                affordable |-> CanAffordSpell(s, castable_spells[i])]]

\* open_belt_item_submenu: the entries of the submenu
BeltSubmenuItems ==
    LET ids == SelectSeq(inventory,
                  LAMBDA item_id : /\ item_id \in DOMAIN items
                                   /\ items[item_id].slot = "consumable")
        all == [i \in 1..Len(ids) |->
                  [type |-> "consumable", item_id |-> ids[i]]]
    IN IF all = <<>> THEN <<NoneItem>> ELSE all

\* The entries of a submenu that select_submenu_action hands to a handler.
Selectable(submenu_items) ==
    {submenu_items[i] : i \in 1..Len(submenu_items)} \ {NoneItem}

\* The combat screen is on top and still takes player actions.
AwaitingAction ==
    /\ states # <<>> /\ Top = "CombatScreen"
    /\ ~combat_screen.is_combat_over

\* select_main_action taken without the is_combat_over return of
\* handle_events.
SelectMainActionWhenOver ==
    /\ states # <<>> /\ Top = "CombatScreen"
    /\ \E action \in {"Attack", "Flee"} :
          combat_screen' = [combat_screen EXCEPT !.player_action = action]
    /\ rcall' = NoCall
    /\ UNCHANGED <<dungeonVars, worldVars, states, inventory_screen, combats,
                   rounds, ops>>
    /\ UNCHANGED <<ecsVars, exploreVars>>

\* select_main_action on 'Attack' or 'Flee'
SelectMainAction ==
    /\ AwaitingAction
    /\ \E action \in {"Attack", "Flee"} :
          combat_screen' = [combat_screen EXCEPT !.player_action = action]
    /\ rcall' = NoCall
    /\ UNCHANGED <<dungeonVars, worldVars, states, inventory_screen, combats,
                   rounds, ops>>
    /\ UNCHANGED <<ecsVars, exploreVars>>

\* handle_equipment_action on an entry of the equipment submenu
HandleEquipmentAction ==
    /\ AwaitingAction
    /\ ops < MaxOps
    /\ ops' = ops + 1
    /\ \E item_data \in Selectable(EquipmentSubmenuItems) :
         LET item_id == item_data.item_id
             slot == item_data.slot
             inv1 == IF equipment[slot] # NoId
                     THEN Append(inventory, equipment[slot]) ELSE inventory
             eq2 == IF item_data.type = "equip"
                    THEN [equipment EXCEPT ![slot] = item_id]
                    ELSE [equipment EXCEPT ![slot] = NoId]
         IN /\ equipment' = eq2
            /\ inventory' = IF item_data.type = "equip"
                            THEN RemoveFirst(inv1, item_id)
                            ELSE Append(inventory, item_id)
            /\ stats' = [stats EXCEPT ![PlayerId] =
                            UpdatePlayerStats(@, eq2, items)]
            /\ combat_screen' = [combat_screen EXCEPT !.player_action =
                                    IF item_data.type = "equip"
                                    THEN "Equipped" ELSE "Unequipped"]
    /\ rcall' = UpdateCall(stats[PlayerId].current_hp)
    /\ UNCHANGED <<dungeonVars, entity_id_counter, skills, items, info,
                   spell_book, resources, states, inventory_screen, combats,
                   rounds>>
    /\ UNCHANGED <<ecsVars, exploreVars>>

CastCall(spell_item, roll, success) ==
    [op |-> "cast", spell |-> spell_item.spell_data,
     affordable |-> spell_item.affordable, roll |-> roll,
     success |-> success]

\* enhanced_handle_spell_action on an entry of the spell submenu, with the
\* d100 of the spell test and the d10 of the effect
HandleSpellAction ==
    /\ AwaitingAction
    /\ ops < MaxOps
    /\ ops' = ops + 1
    /\ \E spell_item \in Selectable(SpellSubmenuItems) :
         LET spell == spell_item.spell_data
             monster_id == combat_screen.monster_id
             paid == PaySpellCost(stats[PlayerId], spell)
         IN IF ~spell_item.affordable
            THEN /\ combat_screen' = [combat_screen EXCEPT
                                         !.player_action = "Cannot afford"]
                 /\ rcall' = CastCall(spell_item, 0, FALSE)
                 /\ UNCHANGED <<stats, skills, info>>
            ELSE \E roll \in D100Set :
                 LET test == PerformTest(paid, skills, equipment, items,
                                         "int", 0, <<"Magic">>, roll)
                 IN /\ skills' = test.sk
                    /\ rcall' = CastCall(spell_item, roll, test.success)
                    /\ IF test.success
                       THEN \E d10 \in IF spell.effect
                                          \in {"ice_storm", "lightning"}
                                       THEN D10Set ELSE {0} :
                            LET done == ApplySpellEffect(
                                           test.s, info[PlayerId],
                                           stats[monster_id], spell, d10)
                            IN /\ stats' = [stats EXCEPT
                                              ![PlayerId] = done.ps,
                                              ![monster_id] = done.ms]
                               /\ info' = [info EXCEPT
                                             ![PlayerId] = done.pi]
                               /\ combat_screen' =
                                     [combat_screen EXCEPT
                                        !.player_action = "Cast"]
                       ELSE /\ stats' = [stats EXCEPT ![PlayerId] = test.s]
                            /\ info' = info
                            /\ combat_screen' =
                                  [combat_screen EXCEPT
                                     !.player_action = "Cast failed"]
    /\ UNCHANGED <<dungeonVars, entity_id_counter, equipment, inventory,
                   items, spell_book, resources, states, inventory_screen,
                   combats, rounds>>
    /\ UNCHANGED <<ecsVars, exploreVars>>

\* handle_belt_action on an entry of the belt submenu
HandleBeltAction ==
    /\ AwaitingAction
    /\ ops < MaxOps
    /\ ops' = ops + 1
    /\ \E item_data \in Selectable(SubSeq(BeltSubmenuItems, 1,
                                           MaxBeltEntries)) :
         LET item_id == item_data.item_id
             item == items[item_id]
             s == stats[PlayerId]
             heal_amount == 4
         IN /\ IF HasEffect(item)
               THEN CASE item.effect = "heal" ->
                           /\ stats' = [stats EXCEPT
                                 ![PlayerId].current_hp =
                                    Min2(s.max_hp, s.current_hp + heal_amount)]
                           /\ resources' = resources
                      [] item.effect = "add_oil" ->
                           /\ resources' = [resources EXCEPT !.oil = @ + 1]
                           /\ stats' = stats
                      [] item.effect = "add_food" ->
                           /\ resources' = [resources EXCEPT !.food = @ + 1]
                           /\ stats' = stats
                      [] OTHER -> UNCHANGED <<stats, resources>>
               ELSE UNCHANGED <<stats, resources>>
            /\ combat_screen' = [combat_screen EXCEPT
                                    !.player_action = "Used"]
            /\ inventory' = RemoveFirst(inventory, item_id)
            /\ items' = RemoveEntity(items, item_id)
    /\ rcall' = NoCall
    /\ UNCHANGED <<dungeonVars, entity_id_counter, skills, equipment, info,
                   spell_book, states, inventory_screen, combats, rounds>>
    /\ UNCHANGED <<ecsVars, exploreVars>>

\* CombatScreen.handle_events once the combat is over: any key leaves the
\* screen.
LeaveCombat ==
    /\ states # <<>> /\ Top = "CombatScreen"
    /\ combat_screen.is_combat_over
    /\ states' = PopState
    /\ rcall' = NoCall
    /\ UNCHANGED <<dungeonVars, worldVars, inventory_screen, combat_screen,
                   combats, rounds, ops>>
    /\ UNCHANGED <<ecsVars, exploreVars>>

\* A monster turn that does not look at the monster's HP.
MonsterTurnWhateverHp(ps, ms, roll, d6) ==
    IF roll <= ms.av
    THEN [ps EXCEPT !.current_hp =
             @ - Max2(0, d6 + ms.damage_mod - ps.defense)]
    ELSE ps

\* monster_turn on the player's Stats ps and the monster's Stats ms
MonsterTurn(ps, ms, roll, d6) ==
    IF ms.current_hp > 0 /\ roll <= ms.av
    THEN [ps EXCEPT !.current_hp =
             @ - Max2(0, d6 + ms.damage_mod - ps.defense)]
    ELSE ps

\* generate_loot: the item data found, given the code and the item key the
\* random choices picked; <<>> when the code names no stocked category.
LootMap(table_key) ==
    CASE table_key = "A" -> "armor"
      [] table_key = "I" -> "items"
      [] table_key = "W" -> "weapons"
      [] table_key = "P" -> "parts"
      [] OTHER -> None

\* generate_loot lines 311-314 for one chosen code of a known category:
\* the lists of item data the num_rolls random choices can pick, an
\* unstocked category giving none.
LootFound(category, num_rolls) ==
    IF category \in DOMAIN ItemsData /\ DOMAIN ItemsData[category] # {}
    THEN {[i \in 1..num_rolls |-> ItemsData[category][ks[i]]] :
             ks \in [1..num_rolls -> DOMAIN ItemsData[category]]}
    ELSE {<<>>}

\* generate_loot: what the call can do, one outcome per code random.choice
\* may pick and per item it may find: raised is the exception that leaves
\* the call (chosen_code[0] on an empty code, line 304), found the list of
\* item data turned into entities.
LootOutcomes(monster_key) ==
    LET codes == LootCodes(LootTableOf(MonstersData[monster_key]))
    IN UNION { IF codes[i] = <<>>
               THEN {[raised |-> "IndexError", found |-> <<>>]}
               ELSE LET category == LootMap(codes[i][1])
                    IN IF category = None
                       THEN {[raised |-> None, found |-> <<>>]}
                       ELSE {[raised |-> None, found |-> f] :
                               f \in LootFound(category,
                                               NumRolls(codes[i]))}
               : i \in 1..Len(codes) }

\* resolve_combat_round line 284: the attack hits
AttackHits(roll, adj_str) == roll <= adj_str

\* Damage that is not floored at 0.
DamageUnfloored(d6, damage_mod, defense) == d6 + damage_mod - defense

\* resolve_combat_round lines 285-286
Damage(d6, damage_mod, defense) == Max2(0, d6 + damage_mod - defense)

\* resolve_combat_round lines 282-290: the player's attack with its d100
\* and d6, on the player's Stats s and Skills sk and the monster's Stats ms
PlayerAttack(s, sk, eq, it, ms, roll, d6) ==
    LET xp == IF roll <= 10
              THEN AwardExperience(s, sk, eq, it, "str", 1)
              ELSE [s |-> s, sk |-> sk]
        hit == AttackHits(roll, xp.s.adj_str)
    IN [s |-> xp.s, sk |-> xp.sk, hit |-> hit,
        ms |-> IF hit
               THEN [ms EXCEPT !.current_hp =
                        @ - Damage(d6, xp.s.damage_mod, ms.defense)]
               ELSE ms]

\* resolve_combat_round on 'Attack': the attack, then monster_turn (line
\* 297).  dice holds the four dice of the round.
AttackRound(s, sk, eq, it, ms, dice) ==
    LET a == PlayerAttack(s, sk, eq, it, ms, dice.roll, dice.d6)
    IN [s |-> MonsterTurn(a.s, a.ms, dice.m_roll, dice.m_d6),
        sk |-> a.sk, ms |-> a.ms, hit |-> a.hit, attacks |-> 1,
        monster_turns |-> 1]

\* The monster's turn alone, as update runs it for the other actions
\* (lines 250-254).
MonsterRound(s, sk, eq, it, ms, dice) ==
    [s |-> MonsterTurn(s, ms, dice.m_roll, dice.m_d6),
     sk |-> sk, ms |-> ms, hit |-> FALSE, attacks |-> 0,
     monster_turns |-> 1]

\* A flight that attacks nobody.
FleeRoundNoAttack(s, sk, eq, it, ms, dice) ==
    MonsterRound(s, sk, eq, it, ms, dice)

\* resolve_combat_round on 'Flee' (lines 291-295): the action becomes
\* 'Attack', the round is resolved as such and the call returns.
FleeRound(s, sk, eq, it, ms, dice) == AttackRound(s, sk, eq, it, ms, dice)

\* resolve_combat_round
ResolveCombatRound(s, sk, eq, it, ms, player_action, dice) ==
    IF player_action = "Attack" THEN AttackRound(s, sk, eq, it, ms, dice)
    ELSE IF player_action = "Flee" THEN FleeRound(s, sk, eq, it, ms, dice)
    ELSE MonsterRound(s, sk, eq, it, ms, dice)

\* CombatScreen.update lines 248-254: what the round does to the player
\* and the monster
Round(s, sk, eq, it, ms, player_action, dice) ==
    IF player_action \in {"Attack", "Flee"}
    THEN ResolveCombatRound(s, sk, eq, it, ms, player_action, dice)
    ELSE MonsterRound(s, sk, eq, it, ms, dice)

\* The dice a round rolls, each one only when the code reaches its roll
\* (0 stands for a die that is not rolled): the player's d100 for an
\* attack, the d6 on a hit, the monster's d100 when it is alive after the
\* player's action, its d6 on a hit.
RoundDice(s, sk, eq, it, ms, player_action) ==
    LET attack == player_action \in {"Attack", "Flee"}
    IN UNION { UNION { UNION {
         { [roll |-> roll, d6 |-> d6, m_roll |-> m_roll, m_d6 |-> m_d6] :
             m_d6 \in IF m_roll # 0 /\ m_roll <= ms.av
                      THEN D6Set ELSE {0} } :
           m_roll \in IF (IF attack
                          THEN PlayerAttack(s, sk, eq, it, ms, roll, d6).ms
                          ELSE ms).current_hp > 0
                      THEN D100Set ELSE {0} } :
           d6 \in IF attack /\ PlayerAttack(s, sk, eq, it, ms, roll, 0).hit
                  THEN D6Set ELSE {0} } :
           roll \in IF attack THEN D100Set ELSE {0} }

RoundCall(player_action, dice, r, raised) ==
    [op |-> "round", player_action |-> player_action, dice |-> dice,
     hit |-> r.hit, attacks |-> r.attacks,
     monster_turns |-> r.monster_turns, raised |-> raised]

\* An end-of-combat check that lets a monster stand at 0 HP.
MonsterDefeatedBelowZero(ms) == ms.current_hp < 0

\* check_for_end_of_combat line 324
MonsterDefeated(ms) == ms.current_hp <= 0

\* An end-of-combat check that lets the player stand at 0 HP.
PlayerDefeatedBelowZero(ps) == ps.current_hp < 0

\* check_for_end_of_combat line 343
PlayerDefeated(ps) == ps.current_hp <= 0

\* A check that saves the player who had no life point left to take.
LifePointSavesOnceMore(life_points) == life_points >= -1

\* check_for_end_of_combat line 345, on the life points left after line 344
LifePointSaves(life_points) == life_points >= 0

\* An end of combat that puts a new cleared Area in the place of the old.
ClearedAreaRebuilt(area) ==
    Area(area.x, area.y, MAPPING_TABLE(1), area.template)

\* check_for_end_of_combat lines 331-333
ClearedArea(area) ==
    [area EXCEPT !.type = "Yellow", !.color = AreaColor("Yellow")]

\* CombatScreen.update with the dice of the round and the loot found if the
\* monster falls: the round, then check_for_end_of_combat.
CombatUpdate ==
    /\ states # <<>> /\ Top = "CombatScreen"
    /\ combat_screen.player_action # None
    /\ ~combat_screen.is_combat_over
    /\ rounds < MaxRounds
    /\ LET monster_id == combat_screen.monster_id
           player_action == combat_screen.player_action
       IN \E dice \in RoundDice(stats[PlayerId], skills, equipment, items,
                                stats[monster_id], player_action) :
          LET r == Round(stats[PlayerId], skills, equipment, items,
                         stats[monster_id], player_action, dice)
              ms1 == r.ms
              ps1 == r.s
              item_id == entity_id_counter
          IN \* check_for_end_of_combat
             /\ skills' = r.sk
             /\ IF MonsterDefeated(ms1)
                THEN /\ combat_screen' = [combat_screen EXCEPT
                                             !.player_action = None,
                                             !.is_combat_over = TRUE]
                     /\ \E loot \in LootOutcomes(combat_screen.monster_key) :
                          LET n == Len(loot.found)
                          IN /\ rcall' = RoundCall(player_action, dice, r,
                                                   loot.raised)
                             /\ entity_id_counter' = entity_id_counter + n
                             /\ items' =
                                   [e \in item_id..(item_id + n - 1) |->
                                      LET d == loot.found[e - item_id + 1]
                                      IN Item(d.name, d.value, d.slot,
                                              BonusesOf(d))]
                                   @@ items
                             /\ inventory' =
                                   inventory
                                   \o [i \in 1..n |-> item_id + i - 1]
                             /\ IF loot.raised # None
                                \* the exception leaves update and
                                \* Game.run: lines 331-342 are not
                                \* reached and no screen runs any more
                                THEN /\ areas' = areas
                                     /\ stats' = [stats EXCEPT
                                                    ![PlayerId] = ps1,
                                                    ![monster_id] = ms1]
                                     /\ info' = info
                                     /\ states' = <<>>
                                ELSE /\ areas' =
                                          [areas EXCEPT
                                             ![combat_screen.area] =
                                                 ClearedArea(@)]
                                     /\ stats' = RemoveEntity(
                                                    [stats EXCEPT
                                                       ![PlayerId] = ps1],
                                                    monster_id)
                                     /\ info' = RemoveEntity(info,
                                                             monster_id)
                                     /\ states' = states
                ELSE /\ rcall' = RoundCall(player_action, dice, r, None)
                     /\ combat_screen' = [combat_screen EXCEPT
                                             !.player_action = None]
                     /\ UNCHANGED <<entity_id_counter, items, inventory,
                                    areas>>
                     /\ IF PlayerDefeated(ps1)
                        THEN /\ info' = [info EXCEPT
                                            ![PlayerId].life_points = @ - 1]
                             /\ IF LifePointSaves(
                                      info[PlayerId].life_points - 1)
                                THEN /\ stats' = [stats EXCEPT
                                           ![PlayerId] =
                                              [ps1 EXCEPT !.current_hp =
                                                             ps1.max_hp],
                                           ![monster_id] = ms1]
                                     /\ states' = states
                                ELSE /\ stats' = [stats EXCEPT
                                                    ![PlayerId] = ps1,
                                                    ![monster_id] = ms1]
                                     /\ states' =
                                           ChangeState("GameOverScreen")
                        ELSE /\ info' = info
                             /\ stats' = [stats EXCEPT ![PlayerId] = ps1,
                                                       ![monster_id] = ms1]
                             /\ states' = states
    /\ rounds' = rounds + 1
    /\ UNCHANGED <<world_tiles, draws, dcall, equipment, spell_book,
                   resources, inventory_screen, combats, ops>>
    /\ UNCHANGED <<ecsVars, exploreVars>>

(***************************************************************************)
(* gameplay_states.py: exploration                                         *)
(***************************************************************************)
\* create_player lines 71-73: the player starts in Area (0, 0) at the
\* start_pos of its template, (1, 1) when the template gives none.
StartPosition ==
    LET template == TEMPLATES["start_room"]
        start_pos_local == IF "start_pos" \in DOMAIN template
                           THEN template.start_pos ELSE <<1, 1>>
    IN Position(0, 0, start_pos_local[1], start_pos_local[2])

\* The number of Areas a walk lets the map grow to, and the tick at which
\* the model stops following the time track.
MaxRooms == 4
MaxTicks == 40

\* The d100 rolls a walk draws for a new Area and for its doors, and the
\* monster random.choice picks when one appears.
WalkAreaRolls == {7}
WalkDoorRolls == {33}
WalkMonsters == {"wisp"}

\* move_player lines 198-202
KeyDelta(key) ==
    CASE key = "K_UP"    -> <<0, -1>>
      [] key = "K_DOWN"  -> <<0, 1>>
      [] key = "K_LEFT"  -> <<-1, 0>>
      [] key = "K_RIGHT" -> <<1, 0>>

\* move_player lines 208-213: the target is inside the room and walkable
CanEnter(room_data, x, y) ==
    /\ 0 <= x /\ x < Len(room_data[1])
    /\ 0 <= y /\ y < Len(room_data)
    /\ room_data[y + 1][x + 1] \in WALKABLE_TILES

\* move_player lines 215-221: the direction of the exit at (x, y), None
\* when the tile is no exit of the template
ExitAt(template_key, x, y) ==
    LET exits == TEMPLATES[template_key].exits
    IN IF \E direction \in DOMAIN exits : exits[direction] = <<x, y>>
       THEN CHOOSE direction \in DOMAIN exits : exits[direction] = <<x, y>>
       ELSE None

\* time_manager.time_track_markers.get(ticks)
EventAt(t) ==
    IF t \in DOMAIN TimeManager.time_track_markers
    THEN TimeManager.time_track_markers[t] ELSE None

\* advance_turn lines 153 and 172-173: the counter after the turn
TicksAfter(t) == IF EventAt(t) = "end" THEN 0 ELSE t

\* advance_turn lines 156-168 on the Resources
ResourcesAfter(res, event) ==
    CASE event = "oil" /\ res.oil > 0 -> [res EXCEPT !.oil = @ - 1]
      [] event = "food" /\ res.food > 0 -> [res EXCEPT !.food = @ - 1]
      [] OTHER -> res

\* GameplayScreen.advance_turn, the player standing in current_area
AdvanceTurn(n, current_area, max_combats) ==
    LET event == EventAt(ticks + n)
    IN /\ ticks + n <= MaxTicks
       /\ ticks' = TicksAfter(ticks + n)
       /\ resources' = ResourcesAfter(resources, event)
       /\ IF event = "monster"
          THEN StartCombatIn(WalkMonsters, current_area, max_combats)
          ELSE UNCHANGED <<entity_id_counter, info, stats, combat_screen,
                           states, combats, rounds>>

MoveCall(key, raised) == [op |-> "move_player", key |-> key,
                          raised |-> raised]

\* GameplayScreen.move_player, in a game followed for max_combats
\* encounters and max_rooms Areas
MovePlayerUpTo(key, max_combats, max_rooms) ==
    /\ states # <<>> /\ Top = "GameplayScreen"
    /\ LET here == <<position.world_x, position.world_y>>
           current_area == areas[here]
           new_local_x == position.local_x + KeyDelta(key)[1]
           new_local_y == position.local_y + KeyDelta(key)[2]
           exit_direction == ExitAt(current_area.template, new_local_x,
                                    new_local_y)
       IN IF ~CanEnter(RoomData(current_area), new_local_x, new_local_y)
          THEN /\ rcall' = MoveCall(key, None)
               /\ UNCHANGED <<dungeonVars, position, ticks, resources,
                              entity_id_counter, info, stats, combat_screen,
                              states, combats, rounds>>
          ELSE IF exit_direction = None
          THEN \* normal movement within the room
               /\ position' = [position EXCEPT !.local_x = new_local_x,
                                               !.local_y = new_local_y]
               /\ AdvanceTurn(1, here, max_combats)
               /\ rcall' = MoveCall(key, None)
               /\ UNCHANGED dungeonVars
          ELSE \* moving to another room
               LET world_x == position.world_x
                                 + DirectionDelta(exit_direction)[1]
                   world_y == position.world_y
                                 + DirectionDelta(exit_direction)[2]
                   opposite_dir == OppositeDir(exit_direction)
               IN /\ \/ <<world_x, world_y>> \in DOMAIN areas
                     \/ Cardinality(DOMAIN areas) < max_rooms
                  /\ GenerateAreaFrom(world_x, world_y, FALSE, opposite_dir,
                                      WalkAreaRolls, WalkDoorRolls)
                  /\ LET exits == TEMPLATES[dcall'.ret.template].exits
                     IN IF opposite_dir \in DOMAIN exits
                        THEN /\ position' =
                                   Position(world_x, world_y,
                                            exits[opposite_dir][1],
                                            exits[opposite_dir][2])
                             /\ AdvanceTurn(1, <<world_x, world_y>>,
                                            max_combats)
                             /\ rcall' = MoveCall(key, None)
                        \* line 234 raises KeyError, which leaves
                        \* handle_events and Game.run: no screen runs any
                        \* more
                        ELSE /\ position' =
                                   [position EXCEPT !.world_x = world_x,
                                                    !.world_y = world_y]
                             /\ states' = <<>>
                             /\ rcall' = MoveCall(key, "KeyError")
                             /\ UNCHANGED <<ticks, resources,
                                            entity_id_counter, info, stats,
                                            combat_screen, combats, rounds>>
    /\ UNCHANGED <<skills, equipment, inventory, items, spell_book,
                   inventory_screen, ops, door_screen, ecsVars>>

MovePlayer(key) == MovePlayerUpTo(key, MaxCombats, MaxRooms)

\* GameplayScreen.handle_events, key K_s: the Area is searched, once.
SearchArea ==
    /\ states # <<>> /\ Top = "GameplayScreen"
    /\ LET here == <<position.world_x, position.world_y>>
       IN IF ~areas[here].has_been_searched
          THEN /\ AdvanceTurn(5, here, MaxCombats)
               /\ areas' = [areas EXCEPT ![here].has_been_searched = TRUE]
          ELSE UNCHANGED <<areas, ticks, resources, entity_id_counter, info,
                           stats, combat_screen, states, combats, rounds>>
    /\ rcall' = [op |-> "search"]
    /\ UNCHANGED <<world_tiles, draws, dcall, position, skills, equipment,
                   inventory, items, spell_book, inventory_screen, ops,
                   door_screen, ecsVars>>

(***************************************************************************)
(* gameplay_states.py: DoorScreen                                          *)
(***************************************************************************)
\* No DoorScreen: the fields name a door by the coordinates of its Area and
\* its key in Area.doors.
NoDoorScreen == [area |-> <<0, 0>>, door |-> <<0, 0>>, selected_index |-> 0]

\* The number of door tests the model follows, and the d100 rolls of the
\* tests: two rolls that earn no experience, a low and a high one.
MaxDoorTests == 16
DoorTestRolls == {20, 60}

\* The door a DoorScreen holds
TheDoor == areas[door_screen.area].doors[door_screen.door]

\* DoorScreen.get_options
GetOptions(door) ==
    (IF door.type \in {"Locked", "Trap Locked"}
     THEN <<"Use Key", "Pick Lock">> ELSE <<>>)
    \o (IF door.type = "Jammed" THEN <<"Force Open">> ELSE <<>>)
    \o (IF door.type = "Magic" THEN <<"Use Magic">> ELSE <<>>)
    \o <<"Leave">>

\* DoorScreen.__init__ and push_state by the code that shows a door of the
\* map to the player.
OpenDoorScreen ==
    /\ states # <<>> /\ Top = "GameplayScreen"
    /\ \E c \in DOMAIN areas :
          \E d \in DOMAIN areas[c].doors :
             door_screen' = [area |-> c, door |-> d, selected_index |-> 0]
    /\ states' = PushState("DoorScreen")
    /\ rcall' = NoCall
    /\ UNCHANGED <<dungeonVars, worldVars, ecsVars, inventory_screen,
                   combat_screen, combats, rounds, ops, position, ticks>>

\* A door that opens whatever the test says.
DoorAfterTestAlwaysOpen(door, success) == [door EXCEPT !.is_open = TRUE]

\* select_option lines 450-452: the door after the test
DoorAfterTest(door, success) ==
    IF success THEN [door EXCEPT !.is_open = TRUE] ELSE door

\* select_option lines 454-457: the Resources after the test
ResourcesAfterTest(res, door, success) ==
    IF ~success /\ door.type \in {"Locked", "Trap Locked"}
    THEN [res EXCEPT !.picks = @ - 1] ELSE res

DoorCall(option, roll, success) ==
    [op |-> "select_option", option |-> option, roll |-> roll,
     success |-> success]

\* DoorScreen.select_option, with the roll of its test
SelectOption ==
    LET option == GetOptions(TheDoor)[door_screen.selected_index + 1]
    IN IF ~(\E i \in 1..Len(states) : states[i] = "GameplayScreen")
          \/ option = "Leave"
       THEN /\ states' = PopState
            /\ rcall' = DoorCall(option, 0, FALSE)
            /\ UNCHANGED <<areas, stats, skills, resources, ops>>
       ELSE /\ ops < MaxDoorTests
            /\ ops' = ops + 1
            /\ \E roll \in DoorTestRolls :
                 LET r == PerformTest(stats[PlayerId], skills, equipment,
                                      items, TheDoor.test, TheDoor.mod,
                                      TheDoor.skills, roll)
                 IN /\ stats' = [stats EXCEPT ![PlayerId] = r.s]
                    /\ skills' = r.sk
                    /\ areas' = [areas EXCEPT
                                    ![door_screen.area]
                                       .doors[door_screen.door] =
                                          DoorAfterTest(@, r.success)]
                    /\ resources' = ResourcesAfterTest(resources, TheDoor,
                                                       r.success)
                    /\ rcall' = DoorCall(option, roll, r.success)
            /\ states' = PopState

DoorKeys4 == {"K_UP", "K_DOWN", "K_RETURN", "K_ESCAPE"}

\* DoorScreen.handle_events
DoorHandleEvents(key) ==
    /\ states # <<>> /\ Top = "DoorScreen"
    /\ CASE key = "K_UP" ->
              /\ door_screen' = [door_screen EXCEPT !.selected_index =
                                    (@ - 1) % Len(GetOptions(TheDoor))]
              /\ rcall' = NoCall
              /\ UNCHANGED <<areas, stats, skills, resources, ops, states>>
         [] key = "K_DOWN" ->
              /\ door_screen' = [door_screen EXCEPT !.selected_index =
                                    (@ + 1) % Len(GetOptions(TheDoor))]
              /\ rcall' = NoCall
              /\ UNCHANGED <<areas, stats, skills, resources, ops, states>>
         [] key = "K_RETURN" ->
              /\ SelectOption
              /\ UNCHANGED door_screen
         [] key = "K_ESCAPE" ->
              /\ states' = PopState
              /\ rcall' = NoCall
              /\ UNCHANGED <<areas, stats, skills, resources, ops,
                             door_screen>>
    /\ UNCHANGED <<world_tiles, draws, dcall, entity_id_counter, equipment,
                   inventory, items, info, spell_book, inventory_screen,
                   combat_screen, combats, rounds, position, ticks, ecsVars>>

(***************************************************************************)
(* ecs.py: World                                                           *)
(***************************************************************************)
\* The component classes the store is filled with, and the names a query
\* may give: 'Position' is the class of no component added here, so the
\* index never registers it.
ComponentNames == {"Stats", "Info"}
QueryNames == ComponentNames \cup {"Position"}

\* Two component objects per class, to tell an overwrite from a no-op.
ComponentValues == {"first", "second"}

\* The number of entities the store is let to create, and the ids the
\* calls are made with (the last one is the id of no entity ever created).
MaxEntities == 2
EntityIds == 0..MaxEntities

\* The name lists of a get_entities_with call.
QueryLists ==
    {<<n>> : n \in QueryNames}
    \cup {<<n1, n2>> : n1 \in QueryNames, n2 \in QueryNames}

\* d[k] = v on a dict
DictSet(d, k, v) ==
    [x \in DOMAIN d \cup {k} |-> IF x = k THEN v ELSE d[x]]

\* An id generator that hands out the lowest id no live entity has.
LowestFreeId ==
    CHOOSE i \in 0..MaxEntities :
       /\ i \notin DOMAIN entities
       /\ \A j \in 0..(i - 1) : j \in DOMAIN entities

\* create_entity line 13: the id of the next entity
NextEntityId == entity_id_counter

\* get_component: self.entities.get(entity_id, {}).get(component_name)
GetComponent(entity_id, component_name) ==
    IF entity_id \in DOMAIN entities
    THEN IF component_name \in DOMAIN entities[entity_id]
         THEN entities[entity_id][component_name]
         ELSE None
    ELSE None

\* get_entities_with: the intersection of the index sets of the names; a
\* name the index does not hold raises KeyError, which the call turns into
\* the empty set.
GetEntitiesWith(component_names) ==
    IF \E i \in 1..Len(component_names) :
          component_names[i] \notin DOMAIN components
    THEN {}
    ELSE {e \in UNION {components[n] : n \in DOMAIN components} :
             \A i \in 1..Len(component_names) :
                e \in components[component_names[i]]}

\* An index that keeps the ids of removed entities.
IndexAfterRemoveStale(entity_id) == components

\* remove_entity lines 40-42: the index without the entity
IndexAfterRemove(entity_id) ==
    IF entity_id \in DOMAIN entities
    THEN [n \in DOMAIN components |->
             IF n \in DOMAIN entities[entity_id]
             THEN components[n] \ {entity_id}
             ELSE components[n]]
    ELSE components

\* The last call on the store: its name, its arguments (NoId, None and
\* <<>> for those it does not take) and return value (entity_id for
\* create_entity, component for get_component, entity_ids for
\* get_entities_with), the ids create_entity has returned so far and
\* those of them remove_entity has been called with.
StoreCall(op, created, removed) ==
    [op |-> op, entity_id |-> NoId, component_name |-> None,
     component |-> None, component_names |-> <<>>, entity_ids |-> {},
     created |-> created, removed |-> removed]

\* World.create_entity
CreateEntityCall ==
    /\ entity_id_counter < MaxEntities
    /\ LET entity_id == NextEntityId
       IN /\ entities' = DictSet(entities, entity_id, EmptyDict)
          /\ entity_id_counter' = entity_id_counter + 1
          /\ rcall' = [StoreCall("create_entity",
                                 rcall.created \cup {entity_id},
                                 rcall.removed)
                       EXCEPT !.entity_id = entity_id]
    /\ UNCHANGED components
    /\ UNCHANGED <<dungeonVars, stats, skills, equipment, inventory, items,
                   info, spell_book, resources, screenVars, exploreVars>>

\* World.add_component on a live entity (on any other id line 21 raises
\* KeyError before the store changes)
AddComponentCall ==
    /\ \E entity_id \in DOMAIN entities, component_name \in ComponentNames,
          component \in ComponentValues :
          /\ entities' = [entities EXCEPT ![entity_id] =
                             DictSet(@, component_name, component)]
          /\ components' =
                DictSet(components, component_name,
                        (IF component_name \in DOMAIN components
                         THEN components[component_name] ELSE {})
                        \cup {entity_id})
          /\ rcall' = [StoreCall("add_component", rcall.created,
                                 rcall.removed)
                       EXCEPT !.entity_id = entity_id,
                              !.component_name = component_name,
                              !.component = component]
    /\ UNCHANGED <<dungeonVars, worldVars, screenVars, exploreVars>>

\* World.remove_entity
RemoveEntityCall ==
    /\ \E entity_id \in EntityIds :
          /\ entities' = RemoveEntity(entities, entity_id)
          /\ components' = IndexAfterRemove(entity_id)
          /\ rcall' = [StoreCall("remove_entity", rcall.created,
                                 rcall.removed
                                 \cup ({entity_id} \cap rcall.created))
                       EXCEPT !.entity_id = entity_id]
    /\ UNCHANGED <<dungeonVars, worldVars, screenVars, exploreVars>>

\* World.get_component
GetComponentCall ==
    /\ \E entity_id \in EntityIds, component_name \in QueryNames :
          rcall' = [StoreCall("get_component", rcall.created, rcall.removed)
                    EXCEPT !.entity_id = entity_id,
                           !.component_name = component_name,
                           !.component =
                               GetComponent(entity_id, component_name)]
    /\ UNCHANGED <<dungeonVars, ecsVars, worldVars, screenVars, exploreVars>>

\* World.get_entities_with
GetEntitiesWithCall ==
    /\ \E component_names \in QueryLists :
          rcall' = [StoreCall("get_entities_with", rcall.created,
                              rcall.removed)
                    EXCEPT !.component_names = component_names,
                           !.entity_ids = GetEntitiesWith(component_names)]
    /\ UNCHANGED <<dungeonVars, ecsVars, worldVars, screenVars, exploreVars>>

(***************************************************************************)
(* Specifications                                                          *)
(***************************************************************************)
\* DungeonMap.__init__
EntranceArea == Area(0, 0, MappingEntrance, "start_room")

DungeonMapInit ==
    /\ areas = [c \in {<<0, 0>>} |-> EntranceArea]
    /\ world_tiles = AreaWorldTiles(EntranceArea)
    /\ draws = 0
    /\ dcall = [x |-> 0, y |-> 0, required_exit |-> None,
                is_entrance |-> TRUE, cached |-> FALSE, ret |-> EntranceArea]

\* No DungeonMap, no World, no screen: the values of the variables a
\* specification does not exercise.
NoDungeon ==
    /\ areas = <<>> /\ world_tiles = <<>> /\ draws = 0
    /\ dcall = [x |-> 0, y |-> 0, required_exit |-> None,
                is_entrance |-> FALSE, cached |-> FALSE, ret |-> None]

\* World.__init__ lines 7-8: the store with no entity and no index.  The
\* specifications of the game follow the components through the tables
\* (stats, items, info, ...) and leave the store as constructed.
EmptyStore == entities = <<>> /\ components = <<>>

NoWorld ==
    /\ EmptyStore
    /\ entity_id_counter = 0
    /\ position = Position(0, 0, 0, 0) /\ ticks = 0
    /\ stats = <<>> /\ skills = <<>> /\ equipment = <<>>
    /\ inventory = <<>> /\ items = <<>> /\ info = <<>>
    /\ spell_book = SpellBook /\ resources = Resources(0, 0, 0)

NoScreens ==
    /\ states = <<>>
    /\ inventory_screen = NoInventoryScreen
    /\ combat_screen = NoCombatScreen
    /\ door_screen = NoDoorScreen
    /\ combats = 0 /\ rounds = 0 /\ ops = 0

\* ---- the dungeon generator on its own ----
DungeonInit == DungeonMapInit /\ NoWorld /\ NoScreens /\ rcall = NoCall

\* A caller (move_player, or any user of the query surface) asks for the
\* area at a coordinate.
CallGenerateArea ==
    /\ \E c \in Coords, required_exit \in RequiredExits :
          /\ c \in DOMAIN areas \/ Cardinality(DOMAIN areas) < MaxAreas
          /\ GenerateArea(c[1], c[2], FALSE, required_exit)
    /\ UNCHANGED <<worldVars, screenVars, rcall>>
    /\ UNCHANGED <<ecsVars, exploreVars>>

DungeonNext == CallGenerateArea

SpecDungeon == DungeonInit /\ [][DungeonNext]_vars

\* ---- the table lookups of generate_area on their own ----
\* The integer keys of a table (lines 83, 113), in declaration order.
TableKeys(table) ==
    IF table = "MAPPING_TABLE" THEN MappingKeys ELSE DoorKeys

\* d100(): the rolls a lookup is made with
D100Range == 1..100

\* A roll is drawn for one of the two tables; no key is looked up yet
\* (key 0, which is the key of no table).
LookupInit ==
    /\ areas = <<>> /\ world_tiles = <<>> /\ draws = 0
    /\ \E table \in {"MAPPING_TABLE", "DOOR_TABLE"}, roll \in D100Range :
          dcall = [table |-> table, roll |-> roll, key |-> 0]
    /\ NoWorld /\ NoScreens /\ rcall = NoCall

\* generate_area lines 83-84 and 113-114: the key closest to the roll
LookupCall ==
    /\ dcall.key = 0
    /\ dcall' = [dcall EXCEPT
                    !.key = ClosestKey(TableKeys(dcall.table), dcall.roll)]
    /\ UNCHANGED <<areas, world_tiles, draws, ecsVars, worldVars,
                   screenVars, exploreVars, rcall>>

LookupNext == LookupCall

SpecLookup == LookupInit /\ [][LookupNext]_vars

\* ---- get_spell_by_roll on its own ----
\* A table with more thresholds than the two of the starting spells.
WideTable ==
    5 :> [name |-> "Spark", cost |-> 1, cost_type |-> "hp",
          effect |-> "damage_2", int_requirement |-> 50]
    @@ RareTable
    @@ 60 :> [name |-> "Ice Storm", cost |-> 6, cost_type |-> "hp",
              effect |-> "ice_storm", int_requirement |-> 70]

RollTables == SpellTables \cup {RareTable, WideTable}

\* The spell table as dicts on a heap: entry i of the heap is the dict of
\* the i-th lowest threshold.
TableRefs(spell_table) ==
    [k \in DOMAIN spell_table |->
        Cardinality({j \in DOMAIN spell_table : j <= k})]

TableHeap(spell_table) ==
    LET refs == TableRefs(spell_table)
    IN [i \in 1..Cardinality(DOMAIN spell_table) |->
          spell_table[CHOOSE k \in DOMAIN spell_table : refs[k] = i]]

\* A table is loaded and a d100 rolled; nothing is returned yet (ref 0).
SpellRollInit ==
    /\ NoDungeon /\ NoWorld /\ NoScreens
    /\ \E spell_table \in RollTables, roll \in D100Range :
          rcall = [op |-> "roll", roll |-> roll,
                   spell_table |-> TableRefs(spell_table),
                   heap |-> TableHeap(spell_table), ret |-> 0]

\* get_spell_by_roll(roll, spell_table)
GetSpellByRollCall ==
    /\ rcall.op = "roll"
    /\ LET key == SpellKeyByRoll(rcall.roll, DOMAIN rcall.spell_table)
           r == DictCopy(rcall.heap, rcall.spell_table[key])
       IN rcall' = [rcall EXCEPT !.op = "get_spell_by_roll",
                                 !.heap = r.heap, !.ret = r.ref]
    /\ UNCHANGED <<dungeonVars, ecsVars, worldVars, screenVars, exploreVars>>

SpellRollNext == GetSpellByRollCall

SpecSpells == SpellRollInit /\ [][SpellRollNext]_vars

\* ---- the entity store on its own ----
\* World.__init__
WorldInit ==
    /\ NoDungeon /\ NoWorld /\ NoScreens
    /\ rcall = StoreCall("World", {}, {})

WorldNext ==
    \/ CreateEntityCall
    \/ AddComponentCall
    \/ RemoveEntityCall
    \/ GetComponentCall
    \/ GetEntitiesWithCall

SpecWorld == WorldInit /\ [][WorldNext]_vars

\* ---- the characters a game starts with ----
\* The choices of the creation screen: the values given to Str, Dex and
\* Int, the race, the path and the two chosen skills.
Builds ==
    { [assigned |-> [Str |-> 40, Dex |-> 30, Int |-> 50],
       race |-> "Elf", path |-> "Warrior",
       chosen_skills |-> <<"Locks", "Magic">>],
      [assigned |-> [Str |-> 40, Dex |-> 30, Int |-> 50],
       race |-> "Human", path |-> "Sorcerer",
       chosen_skills |-> <<"Strong", "Agility">>] }

\* The armor generate_starting_equipment can end with (pieces of pairwise
\* distinct slots): two of its outcomes.
ArmorPicks == {<<"circlet", "jerkin">>, <<"jerkin">>}

PlayerData(b, armor_keys) ==
    FinishCreation(b.assigned, b.race, b.path, b.chosen_skills,
                   GenerateStartingEquipment("sword", armor_keys))

\* The world after GameplayScreen.__init__.
WorldIs(w) ==
    /\ EmptyStore
    /\ entity_id_counter = w.entity_id_counter
    /\ position = StartPosition /\ ticks = TimeManager.ticks
    /\ stats = w.stats /\ skills = w.skills
    /\ equipment = w.equipment /\ inventory = w.inventory
    /\ items = w.items /\ info = w.info
    /\ spell_book = w.spell_book /\ resources = w.resources

\* ---- the rule engine, called on a created character ----
StatFillSet == {0, 9}
SkillFillSet == {0, 8}
MaxCalls == 1

\* A track with its first k slots filled, as k pips leave it.
TrackOf(k) == [i \in 1..10 |-> IF i <= k THEN 1 ELSE 0]

\* The character after earlier tests: the experience already on its Str and
\* Int tracks and on its Magic track.
WithExperience(w, str_k, int_k, magic_k) ==
    [w EXCEPT !.stats[PlayerId].xp_pips["str"] = TrackOf(str_k),
              !.stats[PlayerId].xp_pips["int"] = TrackOf(int_k),
              !.skills["Magic"].xp_pips = TrackOf(magic_k)]

RulesInit ==
    /\ NoDungeon /\ NoScreens
    /\ \E b \in Builds, armor_keys \in ArmorPicks,
          spell_table \in SpellTables,
          str_k \in StatFillSet, int_k \in StatFillSet,
          magic_k \in SkillFillSet :
         WorldIs(WithExperience(
                    CreatePlayer(PlayerData(b, armor_keys), spell_table),
                    str_k, int_k, magic_k))
    /\ rcall = [op |-> "none", n |-> 0]

RuleRollSet == {1, 2, 10, 11, 45, 46, 99, 100}

\* The tests the game asks for: the doors of DOOR_TABLE, the spell test of
\* enhanced_handle_spell_action, and two tests whose modifier brings a
\* target to the ends of the scale.
TestCases ==
    { <<DOOR_TABLE(DoorKeys[i]).test, DOOR_TABLE(DoorKeys[i]).mod,
        DOOR_TABLE(DoorKeys[i]).skills>> : i \in 1..Len(DoorKeys) }
    \cup { <<"int", 0, <<"Magic">>>>,
           <<"Str", -45, <<>>>>, <<"Str", 55, <<>>>> }

Before == [stats |-> stats[PlayerId], skills |-> skills]

PerformTestCall ==
    /\ rcall.n < MaxCalls
    /\ \E t \in TestCases, roll \in RuleRollSet :
         LET r == PerformTest(stats[PlayerId], skills, equipment, items,
                              t[1], t[2], t[3], roll)
         IN /\ stats' = [stats EXCEPT ![PlayerId] = r.s]
            /\ skills' = r.sk
            /\ rcall' = [op |-> "perform_test", n |-> rcall.n + 1,
                         characteristic |-> t[1], modifier |-> t[2],
                         assisting_skills |-> t[3], roll |-> roll,
                         target_value |-> r.target_value,
                         success |-> r.success, before |-> Before]
    /\ UNCHANGED <<dungeonVars, screenVars, entity_id_counter, equipment,
                   inventory, items, info, spell_book, resources>>
    /\ UNCHANGED <<ecsVars, exploreVars>>

AwardNames == {"str", "Int", "Magic", "Stealth"}
PipSet == {0, 1, 9, 10}

AwardExperienceCall ==
    /\ rcall.n < MaxCalls
    /\ \E name \in AwardNames, pips_to_add \in PipSet :
         LET r == AwardExperience(stats[PlayerId], skills, equipment, items,
                                  name, pips_to_add)
         IN /\ stats' = [stats EXCEPT ![PlayerId] = r.s]
            /\ skills' = r.sk
            /\ rcall' = [op |-> "award_experience", n |-> rcall.n + 1,
                         name |-> name, pips_to_add |-> pips_to_add,
                         before |-> Before]
    /\ UNCHANGED <<dungeonVars, screenVars, entity_id_counter, equipment,
                   inventory, items, info, spell_book, resources>>
    /\ UNCHANGED <<ecsVars, exploreVars>>

UpdatePlayerStatsCall ==
    /\ rcall.n < MaxCalls
    /\ stats' = [stats EXCEPT ![PlayerId] =
                    UpdatePlayerStats(@, equipment, items)]
    /\ rcall' = [op |-> "update_player_stats", n |-> rcall.n + 1,
                 prev_hp |-> stats[PlayerId].current_hp, before |-> Before]
    /\ UNCHANGED <<dungeonVars, screenVars, entity_id_counter, skills,
                   equipment, inventory, items, info, spell_book, resources>>
    /\ UNCHANGED <<ecsVars, exploreVars>>

RulesNext ==
    \/ PerformTestCall
    \/ AwardExperienceCall
    \/ UpdatePlayerStatsCall

SpecRules == RulesInit /\ [][RulesNext]_vars

\* ---- award_experience on attuned and non-attuned characters ----
\* Stats.attuned_stats and a skill's 'attuned' are read by award_experience
\* and written by no code of the repository: the embedding sets them.
AttunedStatSets == {{}, {"int"}}

WithAttunement(w, attuned_stats, magic_attuned) ==
    [w EXCEPT !.stats[PlayerId].attuned_stats = attuned_stats,
              !.skills["Magic"].attuned = magic_attuned]

AwardInit ==
    /\ NoDungeon /\ NoScreens
    /\ \E b \in Builds, spell_table \in SpellTables,
          str_k \in StatFillSet, int_k \in StatFillSet,
          magic_k \in SkillFillSet,
          attuned_stats \in AttunedStatSets, magic_attuned \in BOOLEAN :
         WorldIs(WithAttunement(
                    WithExperience(
                       CreatePlayer(PlayerData(b, <<"jerkin">>),
                                    spell_table),
                       str_k, int_k, magic_k),
                    attuned_stats, magic_attuned))
    /\ rcall = [op |-> "none", n |-> 0]

AwardNext == AwardExperienceCall

SpecAward == AwardInit /\ [][AwardNext]_vars

\* ---- an encounter: a character meets a monster ----
BuildOf(path) == CHOOSE b \in Builds : b.path = path

\* The character after n level-ups of Str (10 pips each).
WithStrLevelUps(w, n) ==
    [w EXCEPT !.stats[PlayerId] =
        UpdatePlayerStats([@ EXCEPT !.primary_str = @ + 5 * n],
                          w.equipment, w.items)]

VeteranLevelUps == 11

\* The spell table of the game and the pips already on the Int track of
\* the Sorcerer who enters the encounter.
SorcererStarts ==
    {<<spell_table, 0>> : spell_table \in SpellTables \cup {RareTable}}
    \cup {<<spell_table, 9>> :
            spell_table \in {st \in SpellTables : st[17].cost_type = "str"}}

\* The character who has lost every life point to earlier encounters.
LastLife(w) == [w EXCEPT !.info[PlayerId].life_points = 0]

\* The characters that enter an encounter: a Warrior after many level-ups
\* of Str, a Warrior on the last life, and Sorcerers with their spells.
EncounterStarts ==
    { WithStrLevelUps(
          CreatePlayer(PlayerData(BuildOf("Warrior"),
                                  <<"circlet", "jerkin">>), RareTable),
          VeteranLevelUps) }
    \cup
    { LastLife(CreatePlayer(PlayerData(BuildOf("Warrior"),
                                       <<"circlet", "jerkin">>),
                            RareTable)) }
    \cup
    { WithExperience(
          CreatePlayer(PlayerData(BuildOf("Sorcerer"),
                                  <<"circlet", "jerkin">>), st[1]),
          0, st[2], 0) : st \in SorcererStarts }

EncounterInit ==
    /\ DungeonMapInit
    /\ \E w \in EncounterStarts : WorldIs(w)
    /\ states = <<"GameplayScreen">>
    /\ inventory_screen = NoInventoryScreen
    /\ combat_screen = NoCombatScreen
    /\ door_screen = NoDoorScreen
    /\ combats = 0 /\ rounds = 0 /\ ops = 0
    /\ rcall = NoCall

\* start_combat with the Ogre or the Goblin
StartEncounter == StartCombatWith({"ogre", "goblin"})

EncounterNext ==
    \/ StartEncounter
    \/ SelectMainAction
    \/ HandleEquipmentAction
    \/ HandleSpellAction
    \/ HandleBeltAction
    \/ LeaveCombat
    \/ CombatUpdate

SpecCombat == EncounterInit /\ [][EncounterNext]_vars

\* ---- encounters with the monsters whose loot tables are unusual ----
LootMonsters == {"rat", "bat", "imp", "troll"}

StartLootEncounter == StartCombatWith(LootMonsters)

LootNext ==
    \/ StartLootEncounter
    \/ SelectMainAction
    \/ LeaveCombat
    \/ CombatUpdate

SpecLoot == EncounterInit /\ [][LootNext]_vars

\* ---- a game session: exploration, inventory and combat screens ----
Init ==
    /\ DungeonMapInit
    /\ \E b \in Builds, spell_table \in SpellTables :
         WorldIs(CreatePlayer(PlayerData(b, <<"circlet", "jerkin">>),
                              spell_table))
    /\ states = <<"GameplayScreen">>
    /\ inventory_screen = NoInventoryScreen
    /\ combat_screen = NoCombatScreen
    /\ door_screen = NoDoorScreen
    /\ combats = 0 /\ rounds = 0 /\ ops = 0
    /\ rcall = NoCall

Next ==
    \/ GameplayKeyInventory
    \/ StartCombat
    \/ \E key \in InventoryKeys : InventoryHandleEvents(key)
    \/ SelectMainAction
    \/ HandleEquipmentAction
    \/ HandleSpellAction
    \/ HandleBeltAction
    \/ LeaveCombat
    \/ CombatUpdate

Spec == Init /\ [][Next]_vars

\* ---- a walk through the dungeon: moves, searches and the encounters of
\* the time track ----
WalkKeys == {"K_UP"}

WalkNext ==
    \/ \E key \in WalkKeys : MovePlayer(key)
    \/ SearchArea
    \/ SelectMainAction
    \/ LeaveCombat
    \/ CombatUpdate

WalkInit ==
    /\ DungeonMapInit
    /\ WorldIs(CreatePlayer(PlayerData(BuildOf("Warrior"), <<"jerkin">>),
                            RareTable))
    /\ states = <<"GameplayScreen">>
    /\ inventory_screen = NoInventoryScreen
    /\ combat_screen = NoCombatScreen
    /\ door_screen = NoDoorScreen
    /\ combats = 0 /\ rounds = 0 /\ ops = 0
    /\ rcall = NoCall

SpecExplore == WalkInit /\ [][WalkNext]_vars

\* ---- a walk round the block: north, east, south and west again ----
\* The number of encounters the walk round the block is followed for.
MaxEncounters == 3

\* The exit the player heads for in each Area of the block
ClockwiseExit(world_x, world_y) ==
    CASE <<world_x, world_y>> = <<0, 0>>  -> "north"
      [] <<world_x, world_y>> = <<0, -1>> -> "east"
      [] <<world_x, world_y>> = <<1, -1>> -> "south"
      [] <<world_x, world_y>> = <<1, 0>>  -> "west"
      [] OTHER -> None

\* The key that brings the player at (x, y) nearer to the exit tile e of a
\* room of the given width: along the wall of the exit last.
KeyToward(x, y, e, width) ==
    IF e[1] = 0 \/ e[1] = width - 1
    THEN IF y # e[2] THEN (IF y > e[2] THEN "K_UP" ELSE "K_DOWN")
         ELSE (IF x < e[1] THEN "K_RIGHT" ELSE "K_LEFT")
    ELSE IF x # e[1] THEN (IF x < e[1] THEN "K_RIGHT" ELSE "K_LEFT")
         ELSE (IF y > e[2] THEN "K_UP" ELSE "K_DOWN")

\* handle_events with the arrow key of a player who walks round the block
WalkClockwise ==
    /\ states # <<>> /\ Top = "GameplayScreen"
    /\ LET area == areas[<<position.world_x, position.world_y>>]
           direction == ClockwiseExit(position.world_x, position.world_y)
           exits == TEMPLATES[area.template].exits
       IN /\ direction \in DOMAIN exits
          /\ MovePlayerUpTo(KeyToward(position.local_x, position.local_y,
                                      exits[direction], RoomWidth(area)),
                            MaxEncounters, MaxRooms)

BlockNext ==
    \/ WalkClockwise
    \/ SelectMainAction
    \/ LeaveCombat
    \/ CombatUpdate

SpecBlock == WalkInit /\ [][BlockNext]_vars

\* ---- the doors of the Area north of the entrance ----
\* The Area the player's first walk north has made: a four-way room with a
\* Trap Locked door on its east side and a Magic door on its west side.
NorthArea ==
    NewArea(0, -1, MAPPING_TABLE(ClosestKey(MappingKeys, 7)),
            "four_way_room",
            [i \in {2, 4} |-> IF i = 2 THEN 33 ELSE 96])

\* The game after the four moves from the start to the north exit: the map
\* holds the north Area, the player stands on its south exit, and the third
\* tick has used a flask of oil.
DoorsInit ==
    /\ areas = [c \in {<<0, 0>>, <<0, -1>>} |->
                   IF c = <<0, 0>> THEN EntranceArea ELSE NorthArea]
    /\ world_tiles = AddAreaToWorldMap(AreaWorldTiles(EntranceArea),
                                       NorthArea)
    /\ draws = 4
    /\ dcall = [x |-> 0, y |-> -1, required_exit |-> "south",
                is_entrance |-> FALSE, cached |-> FALSE, ret |-> NorthArea]
    /\ \E b \in Builds :
          LET w == CreatePlayer(PlayerData(b, <<"jerkin">>), RareTable)
          IN /\ EmptyStore
             /\ entity_id_counter = w.entity_id_counter
             /\ stats = w.stats /\ skills = w.skills
             /\ equipment = w.equipment /\ inventory = w.inventory
             /\ items = w.items /\ info = w.info
             /\ spell_book = w.spell_book
             /\ resources = ResourcesAfter(w.resources, EventAt(3))
    /\ position = Position(0, -1,
                           TEMPLATES["four_way_room"].exits["south"][1],
                           TEMPLATES["four_way_room"].exits["south"][2])
    /\ ticks = 4
    /\ states = <<"GameplayScreen">>
    /\ inventory_screen = NoInventoryScreen
    /\ combat_screen = NoCombatScreen
    /\ door_screen = NoDoorScreen
    /\ combats = 0 /\ rounds = 0 /\ ops = 0
    /\ rcall = MoveCall("K_UP", None)

DoorsNext ==
    \/ OpenDoorScreen
    \/ \E key \in DoorKeys4 : DoorHandleEvents(key)

SpecDoors == DoorsInit /\ [][DoorsNext]_vars

\* ---- the steps of move_player inside one room ----
\* The player is put into a room of each template, at its start_pos or on
\* one of its exits as a room transition does (move_player lines 234-236),
\* and walks with the four keys until a step reaches an exit tile, where
\* move_player leaves the room.  dcall holds the template, the place the
\* player came in by and the exit the player has left by.
RoomInit ==
    /\ areas = <<>> /\ world_tiles = <<>> /\ draws = 0
    /\ \E template_key \in TemplateKeys :
          LET template == TEMPLATES[template_key]
          IN \/ /\ "start_pos" \in DOMAIN template
                /\ dcall = [template |-> template_key,
                            entered_by |-> "start_pos", left_by |-> None]
                /\ position = Position(0, 0, template.start_pos[1],
                                       template.start_pos[2])
             \/ \E direction \in DOMAIN template.exits :
                   /\ dcall = [template |-> template_key,
                               entered_by |-> direction, left_by |-> None]
                   /\ position = Position(0, 0,
                                          template.exits[direction][1],
                                          template.exits[direction][2])
    /\ ticks = 0
    /\ EmptyStore
    /\ entity_id_counter = 0 /\ stats = <<>> /\ skills = EmptyDict
    /\ equipment = EmptyDict /\ inventory = <<>> /\ items = <<>>
    /\ info = <<>>
    /\ spell_book = SpellBook /\ resources = Resources(0, 0, 0)
    /\ NoScreens /\ rcall = NoCall

MoveKeys == {"K_UP", "K_DOWN", "K_LEFT", "K_RIGHT"}

\* move_player lines 198-221 and 240-242 in the room of the template
StepInRoom(key) ==
    /\ dcall.left_by = None
    /\ LET room_data == TEMPLATES[dcall.template].map
           new_local_x == position.local_x + KeyDelta(key)[1]
           new_local_y == position.local_y + KeyDelta(key)[2]
       IN IF CanEnter(room_data, new_local_x, new_local_y)
          THEN /\ position' = [position EXCEPT !.local_x = new_local_x,
                                               !.local_y = new_local_y]
               /\ dcall' = [dcall EXCEPT !.left_by =
                               ExitAt(dcall.template, new_local_x,
                                      new_local_y)]
          ELSE UNCHANGED <<position, dcall>>
    /\ rcall' = MoveCall(key, None)
    /\ UNCHANGED <<areas, world_tiles, draws, ecsVars, worldVars,
                   screenVars, ticks, door_screen>>

RoomNext == \E key \in MoveKeys : StepInRoom(key)

SpecRoom == RoomInit /\ [][RoomNext]_vars

(***************************************************************************)
(* Properties of the dungeon generator                                     *)
(***************************************************************************)
Directions == {"north", "south", "east", "west"}

\* C1: a generate_area call for a coordinate that already holds an Area
\* returns that Area and leaves the area map (hence every Area's doors), the
\* global tile map and the random stream untouched, for every required_exit.
C1_CachedCallHasNoEffect ==
    [][(<<dcall'.x, dcall'.y>> \in DOMAIN areas) =>
          /\ areas' = areas
          /\ world_tiles' = world_tiles
          /\ draws' = draws
          /\ dcall'.ret = areas[<<dcall'.x, dcall'.y>>]]_vars

\* A cached non-entrance corridor is asked for again with an exit it lacks.
C1_Witness ==
    /\ dcall.cached
    /\ <<dcall.x, dcall.y>> # <<0, 0>>
    /\ dcall.required_exit = "east"
    /\ areas[<<dcall.x, dcall.y>>].template = "corridor_ns"
    /\ areas[<<dcall.x, dcall.y>>].doors # <<>>

\* C2: a newly created non-entrance Area asked for with required_exit = d,
\* d one of the four directions, has a template that declares exit d.
C2_NewAreaHasRequiredExit ==
    (/\ ~dcall.cached
     /\ ~dcall.is_entrance
     /\ dcall.required_exit \in Directions)
    => dcall.required_exit
          \in DOMAIN TEMPLATES[areas[<<dcall.x, dcall.y>>].template].exits

C2_Witness ==
    /\ ~dcall.cached
    /\ ~dcall.is_entrance
    /\ dcall.required_exit = "west"
    /\ areas[<<dcall.x, dcall.y>>].template = "four_way_room"

(***************************************************************************)
(* Properties of the rule engine                                           *)
(***************************************************************************)
\* Number of filled slots of an XP track.
Fill(track) == Cardinality({i \in 1..Len(track) : track[i] # 0})

\* Fill of a track of fill k after n pips: a track that fills is emptied.
FillAfter(k, n) == IF k + n >= 10 THEN 0 ELSE k + n

\* The names of a list of assisting skills that the character has.
KnownSkills(names) ==
    {names[i] : i \in 1..Len(names)} \cap SkillNames

\* C3: perform_test succeeds exactly when the roll is 1, or the roll is not
\* 100 and is at most the target, the target being the adjusted value of
\* the tested characteristic plus the modifier plus the bonuses of the
\* assisting skills (all read before the call).
C3_TestSucceedsIffRollWithinTarget ==
    (rcall.op = "perform_test") =>
        LET b == rcall.before
            target == b.stats[AdjField(Lower(rcall.characteristic))]
                      + rcall.modifier
                      + SkillBonusSum(b.skills, rcall.assisting_skills)
        IN rcall.success <=>
              (rcall.roll = 1 \/ (rcall.roll # 100 /\ rcall.roll <= target))

C3_Witness ==
    /\ rcall.op = "perform_test"
    /\ rcall.before.stats.adj_str + rcall.modifier = 0
    /\ rcall.characteristic = "Str" /\ rcall.assisting_skills = <<>>
    /\ rcall.roll = 1 /\ rcall.success

\* C8: award_experience with N pips on a (non-attuned) stat whose track has
\* k filled slots levels the stat up exactly when k + N >= 10; a level-up
\* adds 5 to the primary value, empties the track and leaves the adjusted
\* stats recomputed from the new primary value; without a level-up the
\* primary value stays and the track holds k + N pips.
C8_StatLevelUpAtTenPips ==
    (rcall.op = "award_experience" /\ Lower(rcall.name) \in StatNames) =>
        LET n == Lower(rcall.name)
            b == rcall.before.stats
            s == stats[PlayerId]
            k == Fill(b.xp_pips[n])
        IN IF k + rcall.pips_to_add >= 10
           THEN /\ s[PrimaryField(n)] = b[PrimaryField(n)] + 5
                /\ s.xp_pips[n] = ZeroTrack
                /\ s[AdjField(n)] = s[PrimaryField(n)]
                                    + BonusSum(equipment, items,
                                               DOMAIN equipment, n)
           ELSE /\ s[PrimaryField(n)] = b[PrimaryField(n)]
                /\ Fill(s.xp_pips[n]) = k + rcall.pips_to_add

C8_Witness ==
    /\ rcall.op = "award_experience" /\ rcall.name = "Int"
    /\ rcall.pips_to_add = 10
    /\ Fill(rcall.before.stats.xp_pips["int"]) = 0
    /\ stats[PlayerId].primary_int = rcall.before.stats.primary_int + 5
    /\ stats[PlayerId].adj_int = stats[PlayerId].primary_int + 5
    /\ stats[PlayerId].xp_pips["int"] = ZeroTrack

\* C9: every stat track and every skill track has ten slots and is never
\* left full; a primary stat or a skill bonus changes in a call only by
\* +5 and together with the emptying of its track, and a track loses pips
\* in a call only with that +5.
C9_TracksNeverLeftFull ==
    LET s == stats[PlayerId]
    IN /\ DOMAIN s.xp_pips = StatNames
       /\ DOMAIN skills = SkillNames
       /\ \A n \in StatNames :
             Len(s.xp_pips[n]) = 10 /\ Fill(s.xp_pips[n]) < 10
       /\ \A n \in SkillNames :
             Len(skills[n].xp_pips) = 10 /\ Fill(skills[n].xp_pips) < 10
       /\ (rcall.op \in {"award_experience", "perform_test"}) =>
            /\ \A n \in StatNames :
                 LET v0 == rcall.before.stats[PrimaryField(n)]
                     v1 == s[PrimaryField(n)]
                     f0 == Fill(rcall.before.stats.xp_pips[n])
                     f1 == Fill(s.xp_pips[n])
                 IN /\ v1 # v0 => (v1 = v0 + 5 /\ f1 = 0)
                    /\ f1 < f0 => (v1 = v0 + 5 /\ f1 = 0)
            /\ \A n \in SkillNames :
                 LET v0 == rcall.before.skills[n].bonus
                     v1 == skills[n].bonus
                     f0 == Fill(rcall.before.skills[n].xp_pips)
                     f1 == Fill(skills[n].xp_pips)
                 IN /\ v1 # v0 => (v1 = v0 + 5 /\ f1 = 0)
                    /\ f1 < f0 => (v1 = v0 + 5 /\ f1 = 0)

C9_Witness ==
    /\ rcall.op = "perform_test" /\ rcall.roll <= 10
    /\ rcall.assisting_skills = <<"Magic">>
    /\ Fill(rcall.before.skills["Magic"].xp_pips) = 8
    /\ skills["Magic"].xp_pips = ZeroTrack
    /\ skills["Magic"].bonus = rcall.before.skills["Magic"].bonus + 5

\* XP tracks other than those of the tested characteristic and of the
\* assisting skills are as before the test.
OtherTracksUnchanged(except_stats, except_skills) ==
    /\ \A n \in StatNames \ except_stats :
          stats[PlayerId].xp_pips[n] = rcall.before.stats.xp_pips[n]
    /\ \A n \in SkillNames \ except_skills :
          skills[n].xp_pips = rcall.before.skills[n].xp_pips

\* XP tracks after a test in which each assisting skill received
\* skill_pips pips and the tested characteristic one.
TestPips(skill_pips) ==
    LET c == Lower(rcall.characteristic)
        known == KnownSkills(rcall.assisting_skills)
    IN IF rcall.roll <= 10
       THEN /\ Fill(stats[PlayerId].xp_pips[c])
                 = FillAfter(Fill(rcall.before.stats.xp_pips[c]), 1)
            /\ \A n \in known :
                  Fill(skills[n].xp_pips)
                     = FillAfter(Fill(rcall.before.skills[n].xp_pips),
                                 skill_pips)
            /\ OtherTracksUnchanged({c}, known)
       ELSE OtherTracksUnchanged({}, {})

\* C10 as stated: a roll of at most 10 adds one pip to the track of the
\* tested characteristic and one pip to the track of each assisting skill,
\* whether the test succeeds or not; a higher roll changes no track.
C10_OnePipPerAssistingSkill ==
    (rcall.op = "perform_test") => TestPips(1)

\* C10: a roll of at most 10 adds one pip to the track of the tested
\* characteristic and two pips to the track of each assisting skill,
\* whether the test succeeds or not (a track that fills is emptied in the
\* same call); a higher roll changes no track.
C10_TwoPipsPerAssistingSkill ==
    (rcall.op = "perform_test") => TestPips(2)

C10_Witness ==
    /\ rcall.op = "perform_test" /\ rcall.roll = 10 /\ ~rcall.success
    /\ rcall.characteristic = "Dex"
    /\ rcall.assisting_skills = <<"Locks">>
    /\ Fill(stats[PlayerId].xp_pips["dex"]) = 1
    /\ Fill(rcall.before.skills["Locks"].xp_pips) = 0
    /\ Fill(skills["Locks"].xp_pips) = 2

\* C11: one award of N pips fills min(empty slots, N * a) slots of a stat
\* track and min(empty slots, N * a * 2) slots of a skill track, a being 2
\* for an attuned stat or skill and 1 otherwise, the first empty slots
\* first (a track filled this way is then emptied by the level-up).
C11_AwardFillsFirstEmptySlots ==
    (rcall.op = "award_experience") =>
        LET n == Lower(rcall.name)
            b == rcall.before
            After(track0, pips) ==
                LET k == Fill(track0)
                    m == Min2(10 - k, pips)
                IN IF k + m = 10 THEN ZeroTrack ELSE TrackOf(k + m)
        IN /\ n \in StatNames =>
                stats[PlayerId].xp_pips[n] =
                   After(b.stats.xp_pips[n],
                         rcall.pips_to_add
                            * (IF n \in b.stats.attuned_stats
                               THEN 2 ELSE 1))
           /\ rcall.name \in SkillNames =>
                skills[rcall.name].xp_pips =
                   After(b.skills[rcall.name].xp_pips,
                         rcall.pips_to_add * 2
                            * (IF b.skills[rcall.name].attuned
                               THEN 2 ELSE 1))

C11_Witness ==
    /\ rcall.op = "award_experience" /\ rcall.name = "Magic"
    /\ rcall.pips_to_add = 1
    /\ rcall.before.skills["Magic"].attuned
    /\ rcall.before.skills["Magic"].xp_pips = ZeroTrack
    /\ skills["Magic"].xp_pips = TrackOf(4)

\* C7: the spell book is unlocked exactly when the adjusted Int is at
\* least 50.
C7_UnlockedIffIntAtLeast50 ==
    (PlayerId \in DOMAIN stats) =>
        (spell_book.is_unlocked <=> stats[PlayerId].adj_int >= 50)

(***************************************************************************)
(* Properties of a game session                                            *)
(***************************************************************************)
\* C4: update_player_stats sets the adjusted Str, Dex, Int and the maximum
\* HP to the primary value plus the bonuses of the equipped items, defense
\* and damage modifier to the summed bonuses, and the current HP to the
\* smaller of its previous value and the new maximum; running it again
\* changes nothing.
C4_StatsRecomputedFromEquipment ==
    [][(rcall'.op = "update_player_stats") =>
          LET s == stats'[PlayerId]
              B(key) == BonusSum(equipment', items', DOMAIN equipment', key)
          IN /\ s.adj_str = s.primary_str + B("str")
             /\ s.adj_dex = s.primary_dex + B("dex")
             /\ s.adj_int = s.primary_int + B("int")
             /\ s.max_hp = s.primary_hp + B("hp")
             /\ s.defense = B("def")
             /\ s.damage_mod = B("dmg")
             /\ s.current_hp = Min2(stats[PlayerId].current_hp, s.max_hp)
             /\ s.current_hp <= stats[PlayerId].current_hp
             /\ UpdatePlayerStats(s, equipment', items') = s]_vars

C4_Witness ==
    /\ rcall.op = "update_player_stats"
    /\ rcall.prev_hp > stats[PlayerId].max_hp
    /\ stats[PlayerId].current_hp = stats[PlayerId].max_hp
    /\ equipment["torso"] = NoId
    /\ stats[PlayerId].defense = 0 /\ stats[PlayerId].damage_mod = 1

\* C5: the player and the monster never have more current HP than maximum
\* HP.
C5_CurrentHpAtMostMaxHp ==
    \A e \in DOMAIN stats : stats[e].current_hp <= stats[e].max_hp

C5_Witness ==
    /\ states # <<>> /\ Top = "CombatScreen"
    /\ info[PlayerId].life_points = 2
    /\ stats[PlayerId].current_hp = stats[PlayerId].max_hp
    /\ combat_screen.monster_id \in DOMAIN stats
    /\ stats[combat_screen.monster_id].current_hp
          < stats[combat_screen.monster_id].max_hp

\* C6: every occupied equipment slot holds the id of an item that exists
\* in the store and is not in the player's inventory.
C6_EquippedItemsExistOutsideInventory ==
    \A slot \in DOMAIN equipment :
        equipment[slot] # NoId =>
            /\ equipment[slot] \in DOMAIN items
            /\ \A i \in 1..Len(inventory) : inventory[i] # equipment[slot]

C6_Witness ==
    /\ "consumable" \in DOMAIN equipment
    /\ equipment["consumable"] # NoId
    /\ equipment["main_hand"] # NoId
    /\ \E i \in 1..Len(inventory) : items[inventory[i]].name = "Sword"
    /\ Cardinality({e \in DOMAIN items :
                      items[e].name = "Potion of Lesser Healing"}) = 2

(***************************************************************************)
(* Properties of the dungeon map                                           *)
(***************************************************************************)
\* C26: the map always holds at (0, 0) the Area of the 'entrance' entry
\* (Yellow, layout [1, 0, 0, 0], no doors) on the start_room template, made
\* without a random draw, and no other Area is on the start_room template.
C26_EntranceIsFixedStartRoom ==
    /\ <<0, 0>> \in DOMAIN areas
    /\ areas[<<0, 0>>].type = "Yellow"
    /\ areas[<<0, 0>>].layout = <<"1", "0", "0", "0">>
    /\ areas[<<0, 0>>].doors = <<>>
    /\ areas[<<0, 0>>].template = "start_room"
    /\ \A c \in DOMAIN areas \ {<<0, 0>>} :
          areas[c].template # "start_room"
    /\ (DOMAIN areas = {<<0, 0>>}) => draws = 0

\* The entrance is asked for again, with a required exit it lacks and no
\* entrance flag, once a second Area exists.
C26_Witness ==
    /\ dcall.cached /\ <<dcall.x, dcall.y>> = <<0, 0>>
    /\ ~dcall.is_entrance /\ dcall.required_exit = "south"
    /\ Cardinality(DOMAIN areas) = 2 /\ draws > 0

\* C28: a new non-entrance Area is on a template that declares the
\* required exit if a non-entrance template declares it, and on one of the
\* non-entrance templates otherwise (no required exit, or one that no
\* template declares); the Area is stored in both cases.
C28_TemplateDeclaresExitOrFallback ==
    (~dcall.cached /\ ~dcall.is_entrance) =>
        LET non_entrance == TemplateKeys \ {"start_room"}
            declaring == {k \in non_entrance :
                             dcall.required_exit
                                \in DOMAIN TEMPLATES[k].exits}
        IN /\ declaring # {} => dcall.ret.template \in declaring
           /\ declaring = {} => dcall.ret.template \in non_entrance
           /\ <<dcall.x, dcall.y>> \in DOMAIN areas
           /\ areas[<<dcall.x, dcall.y>>] = dcall.ret

\* An Area was asked for with an exit that no template declares.
C28_Witness ==
    /\ ~dcall.cached /\ ~dcall.is_entrance
    /\ dcall.required_exit = "up"
    /\ <<dcall.x, dcall.y>> \in DOMAIN areas
    /\ areas[<<dcall.x, dcall.y>>].template = "corridor_ns"
    /\ areas[<<dcall.x, dcall.y>>].doors # <<>>

\* C29: when a new Area is merged into the global tile map, a position that
\* holds a tile keeps it unless the incoming tile is 'D', which replaces
\* it, and a position not yet present takes the incoming tile; no position
\* is removed and a position holding 'D' holds 'D' in every later state.
C29_ExistingTilesKeptUnlessDoor ==
    [][/\ (~dcall'.cached /\ areas' # areas) =>
             LET incoming == AreaWorldTiles(dcall'.ret)
             IN /\ DOMAIN world_tiles'
                      = DOMAIN world_tiles \cup DOMAIN incoming
                /\ \A p \in DOMAIN world_tiles' :
                      world_tiles'[p] =
                         IF p \notin DOMAIN world_tiles THEN incoming[p]
                         ELSE IF p \in DOMAIN incoming
                                 /\ incoming[p].char = "D"
                              THEN incoming[p]
                              ELSE world_tiles[p]
       /\ \A p \in DOMAIN world_tiles :
             /\ p \in DOMAIN world_tiles'
             /\ world_tiles[p].char = "D" => world_tiles'[p].char = "D"]_vars

\* A corridor lies north of the entrance: its south door replaced a wall
\* tile of the start room, whose own door was kept under the corridor's
\* wall.
C29_Witness ==
    /\ <<0, -1>> \in DOMAIN areas
    /\ areas[<<0, -1>>].template = "corridor_ns"
    /\ world_tiles[<<7, 0>>].char = "D"
    /\ world_tiles[<<7, 0>>].room_coords = <<0, -1>>
    /\ world_tiles[<<9, 0>>].char = "D"
    /\ world_tiles[<<9, 0>>].room_coords = <<0, 0>>
    /\ world_tiles[<<0, 0>>].room_coords = <<0, 0>>

\* C30: two Areas at adjacent coordinates whose templates declare a pair of
\* opposite exits towards each other place the two exit tiles on the same
\* global coordinate.
C30_OppositeExitsShareDoorTile ==
    \A c \in DOMAIN areas, d \in Directions :
        LET n == <<c[1] + DirectionDelta(d)[1], c[2] + DirectionDelta(d)[2]>>
        IN (/\ n \in DOMAIN areas
            /\ d \in DOMAIN TEMPLATES[areas[c].template].exits
            /\ OppositeDir(d) \in DOMAIN TEMPLATES[areas[n].template].exits)
           => LET a_exit == TEMPLATES[areas[c].template].exits[d]
                  b_exit == TEMPLATES[areas[n].template].exits[OppositeDir(d)]
              IN LocalToWorldCoords(c[1], c[2], a_exit[1], a_exit[2])
                 = LocalToWorldCoords(n[1], n[2], b_exit[1], b_exit[2])

(***************************************************************************)
(* Properties of the table lookups                                         *)
(***************************************************************************)
\* C27: for every roll 1..100 the area and door lookups select an integer
\* key of the table at minimal distance from the roll, and of two keys at
\* that distance the one declared first, which is the lower one; the
\* 'entrance' entry, having no integer key, is never selected.
C27_ClosestKeyFirstDeclaredOnTie ==
    (dcall.key # 0) =>
        LET keys == TableKeys(dcall.table)
            key == dcall.key
            at == CHOOSE i \in 1..Len(keys) : keys[i] = key
        IN /\ key \in {keys[i] : i \in 1..Len(keys)}
           /\ key \in Int
           /\ \A i \in 1..Len(keys) :
                 /\ Abs(key - dcall.roll) <= Abs(keys[i] - dcall.roll)
                 /\ (/\ keys[i] # key
                     /\ Abs(keys[i] - dcall.roll) = Abs(key - dcall.roll))
                    => (at < i /\ key < keys[i])

\* Roll 33 lies between the door keys 32 and 34.
C27_Witness ==
    /\ dcall.table = "DOOR_TABLE" /\ dcall.roll = 33 /\ dcall.key = 32

(***************************************************************************)
(* Properties of an encounter                                              *)
(***************************************************************************)
\* The combat screen is on top of the state stack.
InCombat == states # <<>> /\ Top = "CombatScreen"

\* C12: a spell is affordable exactly when its cost type is 'hp' and the
\* caster's current HP exceeds the cost, or the cost type is 'str' and the
\* adjusted Str exceeds the cost; and a cast leaves the caster with more
\* than 0 HP.
C12_AffordableIffValueAboveCost ==
    [][(rcall'.op = "cast") =>
          LET s == stats[PlayerId]
              spell == rcall'.spell
          IN /\ rcall'.affordable <=>
                   \/ spell.cost_type = "hp" /\ s.current_hp > spell.cost
                   \/ spell.cost_type = "str" /\ s.adj_str > spell.cost
             /\ rcall'.affordable => stats'[PlayerId].current_hp > 0]_vars

C12_Witness ==
    /\ rcall.op = "cast" /\ ~rcall.affordable
    /\ rcall.spell.cost_type = "hp"
    /\ stats[PlayerId].current_hp = rcall.spell.cost
    /\ combat_screen.player_action = "Cannot afford"

\* C13: a cast of an affordable spell leaves the cost deducted (from the
\* current HP on a failed test, from the adjusted Str on any test), and a
\* failed test changes nothing else on the player or the monster but XP
\* pips.
C13_CostStaysPaidAndFailureHasNoEffect ==
    [][(rcall'.op = "cast" /\ rcall'.affordable) =>
          LET s == stats[PlayerId]
              s1 == stats'[PlayerId]
              spell == rcall'.spell
              monster_id == combat_screen.monster_id
              paid == IF spell.cost_type = "hp"
                      THEN [s EXCEPT !.current_hp = @ - spell.cost]
                      ELSE [s EXCEPT !.adj_str = @ - spell.cost]
          IN /\ spell.cost_type = "str" =>
                   s1.adj_str = s.adj_str - spell.cost
             /\ ~rcall'.success =>
                   /\ [s1 EXCEPT !.xp_pips = s.xp_pips] = paid
                   /\ stats'[monster_id] = stats[monster_id]
                   /\ info' = info
                   /\ \A n \in SkillNames :
                         skills'[n].bonus = skills[n].bonus]_vars

\* The part of the adjusted Str that spell costs have taken away.
StrReduction ==
    stats[PlayerId].primary_str
    + BonusSum(equipment, items, DOMAIN equipment, "str")
    - stats[PlayerId].adj_str

\* C14: within an encounter the adjusted Str stays reduced by the Str
\* costs paid: no step of the encounter gives any of it back.
C14_StrCostLastsForEncounter ==
    [][(InCombat /\ InCombat') => StrReduction' >= StrReduction]_vars

\* What a round leaves of the monster when the player's attack counts as
\* a hit or not: the HP less the damage, the monster removed and the
\* combat over once the HP is 0 or less.
MonsterAfterAttack(is_hit) ==
    LET monster_id == combat_screen.monster_id
        ms == stats[monster_id]
        damage == Max2(0, rcall'.dice.d6 + stats[PlayerId].damage_mod
                            - ms.defense)
        hp == ms.current_hp - (IF is_hit THEN damage ELSE 0)
    IN IF hp <= 0
       THEN combat_screen'.is_combat_over /\ monster_id \notin DOMAIN stats'
       ELSE /\ ~combat_screen'.is_combat_over
            /\ stats'[monster_id].current_hp = hp

\* A round of the combat screen resolved the player's attack.
AttackResolved ==
    rcall'.op = "round" /\ rcall'.player_action \in {"Attack", "Flee"}

\* C15: an attack hits exactly when a test on Str with modifier 0 and no
\* assisting skills succeeds on the same roll.
C15_AttackHitsIffStrTestSucceeds ==
    [][AttackResolved =>
          LET test == PerformTest(stats[PlayerId], skills, equipment, items,
                                  "str", 0, <<>>, rcall'.dice.roll)
          IN /\ rcall'.hit <=> test.success
             /\ MonsterAfterAttack(test.success)]_vars

\* C16: on a hit the monster loses max(0, d6 + damage_mod - defense) HP,
\* on a miss none; the combat is over exactly when that leaves it at 0 HP
\* or less.
C16_HitDamageIsFlooredDieRoll ==
    [][AttackResolved => MonsterAfterAttack(rcall'.hit)]_vars

C16_Witness ==
    /\ rcall.op = "round" /\ rcall.player_action = "Attack" /\ rcall.hit
    /\ rcall.dice.d6 = 6
    /\ InCombat /\ ~combat_screen.is_combat_over
    /\ combat_screen.monster_key = "goblin"
    /\ stats[PlayerId].damage_mod = 1
    /\ stats[combat_screen.monster_id].defense = 2
    /\ stats[combat_screen.monster_id].current_hp = 3

\* C17: a round runs exactly one monster turn, after the player's action
\* and before the end-of-combat check: the monster attacks only if its HP
\* is above 0 after the player's action, hits exactly when its roll is at
\* most its av, and the player loses max(0, d6 + damage_mod - defense) HP
\* on a hit; a player brought to 0 HP or less is revived or lost only then.
C17_OneMonsterTurnPerRound ==
    [][(rcall'.op = "round") =>
          LET monster_id == combat_screen.monster_id
              attack == rcall'.player_action \in {"Attack", "Flee"}
              a == PlayerAttack(stats[PlayerId], skills, equipment, items,
                                stats[monster_id], rcall'.dice.roll,
                                rcall'.dice.d6)
              ps == IF attack THEN a.s ELSE stats[PlayerId]
              ms == IF attack THEN a.ms ELSE stats[monster_id]
              m_hit == ms.current_hp > 0 /\ rcall'.dice.m_roll <= ms.av
              hp == ps.current_hp
                    - (IF m_hit
                       THEN Max2(0, rcall'.dice.m_d6 + ms.damage_mod
                                      - ps.defense)
                       ELSE 0)
          IN /\ rcall'.monster_turns = 1
             /\ rcall'.attacks = IF attack THEN 1 ELSE 0
             /\ stats'[PlayerId].current_hp =
                   IF ms.current_hp > 0 /\ hp <= 0
                         /\ info[PlayerId].life_points >= 1
                   THEN ps.max_hp ELSE hp]_vars

C17_Witness ==
    /\ rcall.op = "round" /\ rcall.player_action = "Cast"
    /\ rcall.dice.m_roll = 0 /\ rcall.monster_turns = 1
    /\ InCombat /\ combat_screen.is_combat_over
    /\ combat_screen.monster_id \notin DOMAIN stats

\* C18: only an attack, a flight, a completed equip or unequip, a cast and
\* an item use consume a round; the choice of a spell the player cannot
\* afford does not.
C18_OnlyCompletedActionsConsumeRound ==
    (rcall.op = "round") =>
        rcall.player_action \in {"Attack", "Flee", "Equipped", "Unequipped",
                                 "Used", "Cast", "Cast failed"}

\* C19: a round of 'Flee' is the round of 'Attack' on the same dice: one
\* attack, one monster turn, and the same player, monster, XP tracks and
\* combat-over flag.
C19_FleeIsAttack ==
    [][(rcall'.op = "round" /\ rcall'.player_action = "Flee") =>
          LET monster_id == combat_screen.monster_id
              r == AttackRound(stats[PlayerId], skills, equipment, items,
                               stats[monster_id], rcall'.dice)
          IN /\ rcall'.attacks = 1 /\ rcall'.monster_turns = 1
             /\ skills' = r.sk
             /\ combat_screen'.is_combat_over <=> r.ms.current_hp <= 0
             /\ r.ms.current_hp > 0 => stats'[monster_id] = r.ms
             /\ [stats'[PlayerId] EXCEPT !.current_hp = r.s.current_hp]
                   = r.s
             /\ stats'[PlayerId].current_hp =
                   IF r.ms.current_hp > 0 /\ r.s.current_hp <= 0
                         /\ info[PlayerId].life_points >= 1
                   THEN r.s.max_hp ELSE r.s.current_hp]_vars

C19_Witness ==
    /\ rcall.op = "round" /\ rcall.player_action = "Flee" /\ rcall.hit
    /\ rcall.attacks = 1 /\ rcall.monster_turns = 1
    /\ rcall.dice.m_roll # 0 /\ rcall.dice.m_roll <= 40
    /\ InCombat /\ ~combat_screen.is_combat_over
    /\ stats[combat_screen.monster_id].current_hp
          < stats[combat_screen.monster_id].max_hp

\* C20: once the combat is over, the only step of the combat screen is
\* leaving it: no round, no monster turn, no change of a player or monster
\* value.
C20_CombatOverStaysOver ==
    [][(InCombat /\ combat_screen.is_combat_over) =>
          /\ states' = PopState
          /\ combat_screen' = combat_screen
          /\ rounds' = rounds /\ ops' = ops
          /\ UNCHANGED worldVars]_vars

C20_Witness ==
    /\ states # <<>> /\ Top = "GameplayScreen"
    /\ combats = 1 /\ combat_screen.is_combat_over
    /\ combat_screen.monster_id \notin DOMAIN stats
    /\ rcall = NoCall

\* The monster's Stats and the player's Stats as the round leaves them for
\* the end-of-combat check.
RoundResult ==
    Round(stats[PlayerId], skills, equipment, items,
          stats[combat_screen.monster_id], rcall'.player_action,
          rcall'.dice)

\* The names of the catalog items a monster's loot table can yield.
LootNames(monster_key) ==
    LET codes == LootCodes(LootTableOf(MonstersData[monster_key]))
    IN UNION {{ItemsData[LootMap(codes[i][1])][k].name :
                  k \in DOMAIN ItemsData[LootMap(codes[i][1])]} :
              i \in 1..Len(codes)}

C22_DefeatCostsOneLifePoint ==
    [][LET fallen == /\ rcall'.op = "round"
                     /\ RoundResult.ms.current_hp > 0
                     /\ RoundResult.s.current_hp <= 0
           life_points == info[PlayerId].life_points
       IN /\ fallen =>
               /\ info'[PlayerId].life_points = life_points - 1
               /\ IF life_points - 1 >= 0
                  THEN /\ stats'[PlayerId].current_hp
                             = stats'[PlayerId].max_hp
                       /\ states' = states
                       /\ ~combat_screen'.is_combat_over
                  ELSE states' = <<"GameOverScreen">>
          /\ ("GameOverScreen" \in {states'[i] : i \in 1..Len(states')}) =>
               fallen /\ life_points - 1 < 0]_vars

\* The Warrior on the last life falls.
C22_Witness ==
    /\ rcall.op = "round"
    /\ states = <<"GameOverScreen">>
    /\ info[PlayerId].life_points = -1
    /\ stats[PlayerId].current_hp <= 0
    /\ combat_screen.monster_id \in DOMAIN stats

(***************************************************************************)
(* Properties of the entity store                                          *)
(***************************************************************************)
\* C23: every create_entity returns an id strictly greater than all ids
\* returned before, so no id is handed out twice, even after its entity
\* was removed.
C23_EntityIdsStrictlyIncrease ==
    [][(rcall'.op = "create_entity") =>
          /\ \A i \in rcall.created : rcall'.entity_id > i
          /\ rcall'.entity_id \in DOMAIN entities']_vars

\* An entity is created after an older one was removed.
C23_Witness ==
    /\ rcall.op = "create_entity" /\ rcall.entity_id = 1
    /\ 0 \in rcall.created /\ 0 \in rcall.removed
    /\ DOMAIN entities = {1}

\* C24: get_component leaves the store as it is and returns None for an id
\* never created, for the id of a removed entity, and for an entity
\* without a component of the named class (and the component otherwise);
\* remove_entity on an id of no entity changes nothing.
C24_AbsentComponentIsNone ==
    [][/\ (rcall'.op = "get_component") =>
             LET entity_id == rcall'.entity_id
                 component_name == rcall'.component_name
                 absent == \/ entity_id \notin rcall.created
                           \/ entity_id \in rcall.removed
                           \/ component_name \notin DOMAIN entities[entity_id]
             IN /\ UNCHANGED <<entities, components, entity_id_counter>>
                /\ rcall'.component =
                      IF absent THEN None
                      ELSE entities[entity_id][component_name]
       /\ (/\ rcall'.op = "remove_entity"
           /\ \/ rcall'.entity_id \notin rcall.created
              \/ rcall'.entity_id \in rcall.removed) =>
             UNCHANGED <<entities, components, entity_id_counter>>]_vars

\* A component is asked of an entity that held it and was removed.
C24_Witness ==
    /\ rcall.op = "get_component" /\ rcall.component = None
    /\ rcall.entity_id \in rcall.created /\ rcall.entity_id \in rcall.removed
    /\ rcall.component_name \in DOMAIN components
    /\ entity_id_counter = MaxEntities

\* C25: get_entities_with returns exactly the live entities that hold a
\* component of every named class, and the empty set when a named class
\* was never registered; the call leaves the store as it is.
C25_QueryIsIntersectionOfHolders ==
    [][(rcall'.op = "get_entities_with") =>
          LET component_names == rcall'.component_names
              names == {component_names[i] : i \in 1..Len(component_names)}
              live == rcall.created \ rcall.removed
          IN /\ rcall'.entity_ids =
                   {e \in live : \A n \in names : n \in DOMAIN entities[e]}
             /\ (\E n \in names : n \notin DOMAIN components) =>
                   rcall'.entity_ids = {}
             /\ UNCHANGED <<entities, components, entity_id_counter>>]_vars

\* Both classes are asked for after an entity that held both was removed
\* and the other entity's component was written as the second object.
C25_Witness ==
    /\ rcall.op = "get_entities_with"
    /\ rcall.component_names = <<"Stats", "Info">>
    /\ rcall.entity_ids = {1}
    /\ 0 \in rcall.removed
    /\ entities[1]["Stats"] = "second"

(***************************************************************************)
(* Properties of the spell table                                           *)
(***************************************************************************)
\* C31: get_spell_by_roll(roll, table) returns a copy of the entry with the
\* highest threshold not above the roll, and of the entry with the lowest
\* threshold when every threshold is above the roll: the dict returned is
\* a new one, equal to that entry, and the table's dicts are as before.
C31_SpellByRollIsHighestThresholdBelow ==
    [][GetSpellByRollCall =>
         LET keys == DOMAIN rcall.spell_table
             below == {k \in keys : k <= rcall.roll}
             ret == rcall'.ret
         IN /\ \E k \in keys :
                  /\ rcall'.heap[ret] = rcall.heap[rcall.spell_table[k]]
                  /\ IF below # {}
                     THEN k \in below /\ \A j \in below : j <= k
                     ELSE \A j \in keys : k <= j
            /\ \A k \in keys : ret # rcall.spell_table[k]
            /\ rcall'.spell_table = rcall.spell_table
            /\ \A i \in 1..Len(rcall.heap) : rcall'.heap[i] = rcall.heap[i]
    ]_vars

\* A roll between two thresholds of the wide table has been answered with
\* the entry of the lower one.
C31_Witness ==
    /\ rcall.op = "get_spell_by_roll"
    /\ DOMAIN rcall.spell_table = DOMAIN WideTable
    /\ rcall.roll = 40
    /\ rcall.heap[rcall.ret].name = "Clumsy"

(***************************************************************************)
(* Properties of the loot                                                  *)
(***************************************************************************)
\* The number of items the loot table of a monster promises: n for a single
\* code of a valid letter and repeat count n (1 if absent), 0 for an empty
\* or missing table and for a code of another letter.
PromisedLoot(monster_key) ==
    LET codes == LootCodes(LootTableOf(MonstersData[monster_key]))
        code == codes[1]
    IN IF code = <<>> \/ LootMap(code[1]) = None THEN 0
       ELSE NumRolls(code)

\* C32: defeating a monster never fails whatever its loot_table is: the
\* round that brings the monster to 0 HP or less raises nothing, ends the
\* combat normally (combat over, monster removed, combat screen still on
\* top) and adds to the inventory exactly the number of new Item entities
\* the loot table promises, none for an empty or missing table or a code
\* of an unknown letter.
C32_DefeatNeverFailsOnLoot ==
    [][(rcall'.op = "round" /\ RoundResult.ms.current_hp <= 0) =>
          LET n == PromisedLoot(combat_screen.monster_key)
          IN /\ rcall'.raised = None
             /\ combat_screen'.is_combat_over
             /\ states' = states
             /\ combat_screen.monster_id \notin DOMAIN stats'
             /\ Len(inventory') = Len(inventory) + n
             /\ \A i \in 1..n :
                   /\ inventory'[Len(inventory) + i] \notin DOMAIN items
                   /\ inventory'[Len(inventory) + i] \in DOMAIN items'
    ]_vars

(***************************************************************************)
(* Properties of the equipment                                             *)
(***************************************************************************)
\* C34: the Equipment component always has exactly the 13 fixed slots: no
\* equip operation, in combat or from the inventory screen, adds or removes
\* a slot key, whatever the slot value of the item being equipped.
C34_EquipmentHasTheFixedSlots ==
    /\ DOMAIN equipment = SlotNames
    /\ Cardinality(DOMAIN equipment) = 13


(***************************************************************************)
(* Properties of the time track                                            *)
(***************************************************************************)
\* C38: after every advance_turn the tick counter is within 0..35, so that
\* the counter always meets the 'end' marker at 36 and the events of the
\* time track keep recurring.
C38_TicksStayOnTheTrack == ticks \in 0..35


(***************************************************************************)
(* Properties of the Areas                                                 *)
(***************************************************************************)
\* What the Area keeps for life: all its fields but has_been_searched, type,
\* color and the is_open of its doors, with the tile grid and the world
\* tiles computed from them.
FixedPart(area) ==
    [fields |-> [area EXCEPT
                    !.has_been_searched = FALSE,
                    !.type = None,
                    !.color = None,
                    !.doors = [d \in DOMAIN area.doors |->
                                  [area.doors[d] EXCEPT !.is_open = FALSE]]],
     room_data |-> RoomData(area),
     world_tiles |-> AreaWorldTiles(area),
     door_directions |-> DOMAIN area.doors]

\* C35: once an Area is generated, every later operation leaves it in the
\* map with the same coordinates, layout, template, tile grid and door
\* directions; only has_been_searched, type, color and the doors' is_open
\* may change.
C35_GeneratedAreaIsFixed ==
    [][\A c \in DOMAIN areas :
          /\ c \in DOMAIN areas'
          /\ FixedPart(areas'[c]) = FixedPart(areas[c])
          /\ areas'[c].x = c[1] /\ areas'[c].y = c[2]]_vars

\* The walk has made four Areas; one with doors was searched and then
\* cleared of its monster, which turned it from Red to Yellow.
C35_Witness ==
    /\ Cardinality(DOMAIN areas) = 4
    /\ \E c \in DOMAIN areas :
          /\ areas[c].has_been_searched
          /\ DOMAIN areas[c].doors # {}
          /\ areas[c].type = "Yellow" /\ areas[c].layout[2] = "D"
          /\ combat_screen.area = c /\ combat_screen.is_combat_over


(***************************************************************************)
(* Properties of the doors                                                 *)
(***************************************************************************)
\* All that a Door holds but is_open
DoorData(door) == [door EXCEPT !.is_open = FALSE]

\* C33: a Door is created closed; is_open becomes true only in a step in
\* which the d100 test of that door succeeded, it never returns to false,
\* and the door's type, code, test, modifier and skills never change.
C33_DoorOpensOnlyBySuccessfulTest ==
    /\ \A c \in DOMAIN areas : \A d \in DOMAIN areas[c].doors :
          ~areas[c].doors[d].is_open
    /\ [][\A c \in DOMAIN areas' : \A d \in DOMAIN areas'[c].doors :
            IF c \in DOMAIN areas /\ d \in DOMAIN areas[c].doors
            THEN LET old == areas[c].doors[d]
                     new == areas'[c].doors[d]
                 IN /\ DoorData(new) = DoorData(old)
                    /\ old.is_open => new.is_open
                    /\ (new.is_open /\ ~old.is_open) =>
                          /\ Top = "DoorScreen"
                          /\ door_screen.area = c /\ door_screen.door = d
                          /\ rcall'.op = "select_option"
                          /\ PerformTest(stats[PlayerId], skills, equipment,
                                         items, old.test, old.mod,
                                         old.skills, rcall'.roll).success
            ELSE ~areas'[c].doors[d].is_open]_vars

\* A test has just opened the Trap Locked door while the Magic door of the
\* same Area, tested before without success, is still closed.
C33_Witness ==
    /\ rcall.op = "select_option" /\ rcall.success
    /\ areas[<<0, -1>>].doors[<<1, 0>>].is_open
    /\ areas[<<0, -1>>].doors[<<1, 0>>].type = "Trap Locked"
    /\ ~areas[<<0, -1>>].doors[<<-1, 0>>].is_open
    /\ door_screen.door = <<1, 0>>
    /\ ops >= 2

(***************************************************************************)
(* Properties of the resources                                             *)
(***************************************************************************)
\* C39: oil, food and picks never drop below 0, whatever the time-track
\* events and door tests.
C39_ResourcesNeverNegative ==
    resources.oil >= 0 /\ resources.food >= 0 /\ resources.picks >= 0


(***************************************************************************)
(* Properties of the room templates                                        *)
(***************************************************************************)
\* The tiles next to a tile
Neighbours(p) == {<<p[1], p[2] - 1>>, <<p[1], p[2] + 1>>,
                  <<p[1] - 1, p[2]>>, <<p[1] + 1, p[2]>>}

RECURSIVE Flood(_, _)
\* The tiles that steps over walkable tiles reach from the tiles of seen
Flood(room_data, seen) ==
    LET more == {q \in UNION {Neighbours(p) : p \in seen} :
                    CanEnter(room_data, q[1], q[2])}
    IN IF more \subseteq seen THEN seen
       ELSE Flood(room_data, seen \cup more)

\* C36: in every shipped template each declared exit lies inside the tile
\* grid, holds a walkable tile ('D' or '.'), and can be reached over walkable
\* tiles from wherever the player stands after coming in by start_pos or
\* by another exit.
C36_ExitsAreReachableWalkableTiles ==
    LET template == TEMPLATES[dcall.template]
        room_data == template.map
        reach == Flood(room_data, {<<position.local_x, position.local_y>>})
    IN \A direction \in DOMAIN template.exits :
          LET e == template.exits[direction]
          IN /\ 0 <= e[1] /\ e[1] < Len(room_data[1])
             /\ 0 <= e[2] /\ e[2] < Len(room_data)
             /\ room_data[e[2] + 1][e[1] + 1] \in {"D", "."}
             /\ CanEnter(room_data, e[1], e[2])
             /\ e \in reach

\* The player who came into the four-way room by its west exit has walked
\* to the east exit and left by it.
C36_Witness ==
    /\ dcall.template = "four_way_room"
    /\ dcall.entered_by = "west" /\ dcall.left_by = "east"
    /\ <<position.local_x, position.local_y>> =
          TEMPLATES["four_way_room"].exits["east"]


(***************************************************************************)
(* Properties of the room transitions                                      *)
(***************************************************************************)
\* C37: every room transition of move_player completes: the destination
\* Area, new or cached, has the exit opposite to the direction taken, and
\* the player is placed on that exit tile, world and local coordinates
\* referring to the same Area.
C37_TransitionLandsOnOppositeExit ==
    [][(rcall'.op = "move_player"
        /\ <<position'.world_x, position'.world_y>>
              # <<position.world_x, position.world_y>>)
       => LET direction ==
                  CHOOSE d \in Directions :
                     DirectionDelta(d) =
                        <<position'.world_x - position.world_x,
                          position'.world_y - position.world_y>>
              c == <<position'.world_x, position'.world_y>>
          IN /\ rcall'.raised = None
             /\ states' # <<>>
             /\ c \in DOMAIN areas'
             /\ OppositeDir(direction)
                   \in DOMAIN TEMPLATES[areas'[c].template].exits
             /\ <<position'.local_x, position'.local_y>> =
                   TEMPLATES[areas'[c].template]
                      .exits[OppositeDir(direction)]]_vars


(***************************************************************************)
(* Properties of the end-of-round check                                    *)
(***************************************************************************)
\* C40: whenever the CombatScreen waits for the player's action (the combat
\* is not over, the session is not lost, no action is left to resolve) and
\* the player's max_hp is positive, the monster and the player both have
\* current_hp > 0.
C40_NobodyAtZeroAwaitsAction ==
    (/\ AwaitingAction
     /\ combat_screen.player_action = None
     /\ stats[PlayerId].max_hp > 0)
    => /\ combat_screen.monster_id \in DOMAIN stats
       /\ stats[combat_screen.monster_id].current_hp > 0
       /\ stats[PlayerId].current_hp > 0


\* A round in which the monster brought the player to 0 HP or below has
\* ended with a life point spent and the player back at max_hp, and the
\* CombatScreen waits for the next action against the living monster.
C40_Witness ==
    /\ AwaitingAction
    /\ combat_screen.player_action = None
    /\ rcall.op = "round" /\ rcall.monster_turns >= 1
    /\ stats[PlayerId].max_hp > 0
    /\ stats[PlayerId].current_hp = stats[PlayerId].max_hp
    /\ info[PlayerId].life_points = 2
    /\ stats[combat_screen.monster_id].current_hp > 0

====
